---- MODULE Spec2Model ----
(***************************************************************************)
(* A model of the adapter manager of fxbox/adapters: the back-end state    *)
(* (src/src/backend.rs, AdapterManagerState), the front-end that dispatches *)
(* messages to the back-end thread (src/src/manager.rs), the watch guards  *)
(* and the adapters' watch callbacks.                                      *)
(*                                                                         *)
(* Build modelled: release (debug_assert! is compiled out).                *)
(***************************************************************************)
EXTENDS Integers, Sequences, FiniteSets, TLC

VARIABLES
    adapter_by_id,   \* AdapterManagerState.adapter_by_id : AdapterId -> AdapterData
    service_by_id,   \* AdapterManagerState.service_by_id : ServiceId -> Service
    getter_by_id,    \* AdapterManagerState.getter_by_id  : GetterId  -> GetterData
    setter_by_id,    \* AdapterManagerState.setter_by_id  : SetterId  -> SetterData
    watchers,        \* AdapterManagerState.watchers : WatchMap (counter, keys registered)
    watcher_data,    \* the live Rc<WatcherData> objects, by key
    queue,           \* the mpsc channel of Op messages to the back-end thread
    held,            \* keys of the WatchGuards that clients hold
    inputs,          \* what the clients of this run call the manager with
    last,            \* history: the step just taken, with its outcome
    thread,          \* the back-end thread: running, acked, stopped or dead
    manager,         \* the AdapterManager: live, or its drop waiting or returned
    stop_ack,        \* the channel of Op::Stop: none, pending, sent or closed
    clients,         \* the number of messages each client has dispatched
    executed         \* history: the messages executed, in order, with results

vars == <<adapter_by_id, service_by_id, getter_by_id, setter_by_id, watchers,
          watcher_data, queue, held, inputs, last, thread, manager, stop_ack,
          clients, executed>>

-----------------------------------------------------------------------------
(* Bounds of the model. *)

\* Watchers created in one run (WatchMap.counter is an unbounded usize).
MaxWatchers == 1
\* Messages waiting in the channel (the channel is unbounded).
MaxQueue == 2
\* Values one adapter callback numbers (an adapter emits without bound).
MaxEvents == 3

-----------------------------------------------------------------------------
(* Identifiers and inputs. *)

\* The threads that call the methods of the AdapterManager.
Clients == {"c1", "c2"}

AdapterIds == {"a1", "a2"}
ServiceIds == {"s1", "s2"}
GetterIds  == {"g1", "g2"}
SetterIds  == {"t1"}
None == "None"

\* HashMap helpers.
EmptyMap == [x \in {} |-> None]
Put(m, k, v) == [x \in (DOMAIN m) \cup {k} |-> IF x = k THEN v ELSE m[x]]
Del(m, k) == [x \in (DOMAIN m) \ {k} |-> m[x]]
DelAll(m, ks) == [x \in (DOMAIN m) \ ks |-> m[x]]

\* Result<(), AdapterError>.
Ok == [ok |-> TRUE, err |-> None]
Err(e) == [ok |-> FALSE, err |-> e]

\* AdapterError.
NoSuchAdapter(id) == [kind |-> "NoSuchAdapter", id |-> id]
NoSuchService(id) == [kind |-> "NoSuchService", id |-> id]
NoSuchGetter(id) == [kind |-> "NoSuchGetter", id |-> id]
NoSuchSetter(id) == [kind |-> "NoSuchSetter", id |-> id]
DuplicateAdapter(id) == [kind |-> "DuplicateAdapter", id |-> id]
DuplicateService(id) == [kind |-> "DuplicateService", id |-> id]
DuplicateGetter(id) == [kind |-> "DuplicateGetter", id |-> id]
DuplicateSetter(id) == [kind |-> "DuplicateSetter", id |-> id]
ConflictingAdapter(a, b) == [kind |-> "ConflictingAdapter", id |-> a, other |-> b]

\* The element a loop over S meets first. The services of this model carry
\* at most one getter and one setter, so S has one element wherever this is
\* used.
First(S) == CHOOSE x \in S : TRUE

-----------------------------------------------------------------------------
(* Data. *)

\* ChannelKind and the Type of a Value: the two the tests use.
OnOff == "OnOff"
OpenClosed == "OpenClosed"

\* Channel<Getter>, Channel<Setter>. Every channel of the model declares the
\* kind OnOff (mechanism.kind), as the channels of the tests do.
Channel(id, service, adapter, tags) ==
    [id |-> id, service |-> service, adapter |-> adapter, tags |-> tags,
     kind |-> OnOff]

\* Service.
Service(id, adapter, tags, getters, setters) ==
    [id |-> id, adapter |-> adapter, tags |-> tags,
     getters |-> getters, setters |-> setters]

\* AdapterData::new. The table maps a service id to an Rc of the service; the
\* code reads only its keys, so the table is the set of its keys.
AdapterData_new == [services |-> {}]

\* GetterData::new, SetterData::new.
GetterData_new(getter) == [getter |-> getter, watchers |-> {}]
SetterData_new(setter) == [setter |-> setter]

\* WatcherData::new. guards holds the getter each adapter guard watches (the
\* order of the Vec is never read).
WatcherData_new(key, selectors, range) ==
    [selectors |-> selectors, range |-> range, key |-> key,
     guards |-> {}, getters |-> {}, is_dropped |-> FALSE]

\* A GetterSelector / SetterSelector: absent fields (None) match everything,
\* present fields are and-ed.
Selector(id, parent, tags) == [id |-> id, parent |-> parent, tags |-> tags]

\* Channel::matches(selector).
ChannelMatches(channel, selector) ==
    /\ selector.id = None \/ selector.id = channel.id
    /\ selector.parent = None \/ selector.parent = channel.service
    /\ selector.tags \subseteq channel.tags

\* selectors.iter().find(|selector| data.matches(selector)).is_some()
MatchesAny(channel, selectors) ==
    \E i \in DOMAIN selectors : ChannelMatches(channel, selectors[i])

\* The state of the back-end as one value.
State ==
    [adapter_by_id |-> adapter_by_id, service_by_id |-> service_by_id,
     getter_by_id |-> getter_by_id, setter_by_id |-> setter_by_id,
     watchers |-> watchers, watcher_data |-> watcher_data]

\* What a handler returns: the state it leaves and its result.
Ret(s, res) == [st |-> s, res |-> res]

-----------------------------------------------------------------------------
(* transact::InsertInMap. *)

\* InsertInMap::start: no key may be present, or the offending key is
\* returned; then all pairs are inserted.
InsertInMap_start(map, pairs) ==
    IF (DOMAIN pairs) \cap (DOMAIN map) # {}
    THEN [ok |-> FALSE, map |-> map, keys |-> {},
          key |-> First((DOMAIN pairs) \cap (DOMAIN map))]
    ELSE [ok |-> TRUE, key |-> None,
          map |-> [x \in (DOMAIN map) \cup (DOMAIN pairs) |->
                      IF x \in DOMAIN pairs THEN pairs[x] ELSE map[x]],
          keys |-> DOMAIN pairs]

\* Drop of an InsertInMap that was not committed: the keys it inserted go.
InsertInMap_rollback(map, tx) == DelAll(map, tx.keys)

\* One pair to insert.
Pair(k, v) == [x \in {k} |-> v]

-----------------------------------------------------------------------------
(* Rc<WatcherData>: a watcher lives while the registry or a getter of the     *)
(* index refers to it; when the last reference goes, its guards are dropped. *)

Referenced(s) ==
    s.watchers.watchers
        \cup UNION {s.getter_by_id[g].watchers : g \in DOMAIN s.getter_by_id}

DropUnreferenced(s) ==
    [s EXCEPT !.watcher_data =
        [k \in (DOMAIN s.watcher_data) \cap Referenced(s) |-> s.watcher_data[k]]]

-----------------------------------------------------------------------------
(* AdapterManagerState: services. *)

\* aux_remove_service: the service leaves the index, and so does every
\* channel its child tables name.
aux_remove_service(s, id) ==
    IF id \notin DOMAIN s.service_by_id
    THEN Ret(s, Err(NoSuchService(id)))
    ELSE LET service == s.service_by_id[id]
         IN Ret([s EXCEPT
                    !.service_by_id = Del(@, id),
                    !.getter_by_id = DelAll(@, DOMAIN service.getters),
                    !.setter_by_id = DelAll(@, DOMAIN service.setters)],
                Ok)

\* add_service, after both channel transactions have started: the adapter's
\* table, then the index of services. An early return drops (rolls back) the
\* transactions started so far.
add_service_tables(s, s2, adapter, service) ==
    IF adapter \notin DOMAIN s2.adapter_by_id
    THEN Ret(s, Err(NoSuchAdapter(adapter)))
    ELSE LET insert_in_adapters ==
                 InsertInMap_start(
                     [x \in s2.adapter_by_id[adapter].services |-> x],
                     Pair(service.id, service.id))
         IN IF ~insert_in_adapters.ok
            THEN Ret(s, Err(DuplicateService(insert_in_adapters.key)))
            ELSE LET insert_in_services ==
                         InsertInMap_start(s2.service_by_id,
                                           Pair(service.id, service))
                 IN IF ~insert_in_services.ok
                    THEN Ret(s, Err(DuplicateService(insert_in_services.key)))
                    ELSE Ret([s2 EXCEPT
                                 !.adapter_by_id[adapter].services =
                                     DOMAIN insert_in_adapters.map,
                                 !.service_by_id = insert_in_services.map],
                             Ok)

\* add_service(adapter, service).
add_service(s, adapter, service) ==
    IF \E id \in DOMAIN service.getters : service.getters[id].adapter # adapter
    THEN Ret(s, Err(ConflictingAdapter(
                        service.getters[First({id \in DOMAIN service.getters :
                            service.getters[id].adapter # adapter})].adapter,
                        adapter)))
    ELSE
    LET insert_getters ==
            InsertInMap_start(s.getter_by_id,
                [id \in DOMAIN service.getters |->
                    GetterData_new(service.getters[id])])
    IN  IF ~insert_getters.ok
        THEN Ret(s, Err(DuplicateGetter(insert_getters.key)))
        ELSE
        LET s1 == [s EXCEPT !.getter_by_id = insert_getters.map]
        IN  IF \E id \in DOMAIN service.setters :
                   service.setters[id].adapter # adapter
            THEN Ret([s1 EXCEPT !.getter_by_id =
                          InsertInMap_rollback(@, insert_getters)],
                     Err(ConflictingAdapter(
                             service.setters[First({id \in DOMAIN service.setters :
                                 service.setters[id].adapter # adapter})].adapter,
                             adapter)))
            ELSE
            LET insert_setters ==
                    InsertInMap_start(s1.setter_by_id,
                        [id \in DOMAIN service.setters |->
                            SetterData_new(service.setters[id])])
            IN  IF ~insert_setters.ok
                THEN Ret([s1 EXCEPT !.getter_by_id =
                              InsertInMap_rollback(@, insert_getters)],
                         Err(DuplicateSetter(insert_setters.key)))
                ELSE
                LET s2 == [s1 EXCEPT !.setter_by_id = insert_setters.map]
                    undone == [s2 EXCEPT
                        !.getter_by_id = InsertInMap_rollback(@, insert_getters),
                        !.setter_by_id = InsertInMap_rollback(@, insert_setters)]
                IN  add_service_tables(undone, s2, adapter, service)

\* remove_service(adapter, service_id).
remove_service(s, adapter, service_id) ==
    LET s1 == aux_remove_service(s, service_id).st
    IN  IF adapter \notin DOMAIN s1.adapter_by_id
        THEN Ret(s1, Err(NoSuchAdapter(adapter)))
        ELSE IF service_id \notin s1.adapter_by_id[adapter].services
        THEN Ret(s1, Err(NoSuchService(service_id)))
        ELSE Ret([s1 EXCEPT !.adapter_by_id[adapter].services =
                                 @ \ {service_id}],
                 Ok)

-----------------------------------------------------------------------------
(* AdapterManagerState: adapters. *)

\* The rollback loop of add_adapter: remove_service for every service added,
\* results ignored.
RECURSIVE remove_added(_, _, _)
remove_added(s, id, added) ==
    IF added = <<>> THEN s
    ELSE remove_added(remove_service(s, id, Head(added)).st, id, Tail(added))

\* The loop of add_adapter over its services.
RECURSIVE add_services(_, _, _, _)
add_services(s, id, services, added) ==
    IF services = <<>> THEN Ret(s, Ok)
    ELSE LET service == Head(services)
             r == add_service(s, id, service)
         IN  IF r.res.ok
             THEN add_services(r.st, id, Tail(services),
                               Append(added, service.id))
             ELSE Ret([remove_added(r.st, id, added) EXCEPT
                          !.adapter_by_id = Del(@, id)],
                      r.res)

\* An add_adapter that takes the place of an adapter with the same id.
add_adapter_overwriting(s, id, services) ==
    add_services([s EXCEPT !.adapter_by_id = Put(@, id, AdapterData_new)],
                 id, services, <<>>)

\* add_adapter(adapter, services); id is adapter.id().
add_adapter(s, id, services) ==
    IF id \in DOMAIN s.adapter_by_id
    THEN Ret(s, Err(DuplicateAdapter(id)))
    ELSE add_services([s EXCEPT !.adapter_by_id = Put(@, id, AdapterData_new)],
                      id, services, <<>>)

\* The loop of remove_adapter over the drained service table (the removals
\* are of distinct services, so their order does not matter).
RECURSIVE remove_services(_, _)
remove_services(s, ids) ==
    IF ids = {} THEN s
    ELSE LET id == CHOOSE x \in ids : TRUE
         IN  remove_services(aux_remove_service(s, id).st, ids \ {id})

\* remove_adapter(id).
remove_adapter(s, id) ==
    IF id \notin DOMAIN s.adapter_by_id
    THEN Ret(s, Err(NoSuchAdapter(id)))
    ELSE Ret(remove_services([s EXCEPT !.adapter_by_id = Del(@, id)],
                             s.adapter_by_id[id].services),
             Ok)

-----------------------------------------------------------------------------
(* AdapterManagerState: channels. *)

\* A loop of aux_add_getter that visits every watcher still alive, whether
\* the registry holds it or not.
MatchingLiveWatchers(s, getter) ==
    {k \in DOMAIN s.watcher_data :
        MatchesAny(getter, s.watcher_data[k].selectors)}

\* The loop of aux_add_getter over the registry: every watcher with a
\* matching selector is linked to the getter, both ways.
MatchingWatchers(s, getter) ==
    {k \in s.watchers.watchers :
        MatchesAny(getter, s.watcher_data[k].selectors)}

\* An aux_add_getter that does not compare the adapters of the getter and of
\* its service.
aux_add_getter_any_adapter(s, getter) ==
    LET insert_in_getters ==
            InsertInMap_start(s.getter_by_id,
                              Pair(getter.id, GetterData_new(getter)))
    IN  IF ~insert_in_getters.ok
        THEN Ret(s, Err(DuplicateGetter(insert_in_getters.key)))
        ELSE Ret([s EXCEPT !.getter_by_id = insert_in_getters.map], Ok)

\* aux_add_getter. The watchers are linked before the insertion is tried.
aux_add_getter(s, getter) ==
    LET service == s.service_by_id[getter.service]
    IN  IF service.adapter # getter.adapter
        THEN Ret(s, Err(ConflictingAdapter(service.adapter, getter.adapter)))
        ELSE
        LET matching == MatchingWatchers(s, getter)
            getter_data == [GetterData_new(getter) EXCEPT !.watchers = matching]
            s1 == [s EXCEPT !.watcher_data =
                      [k \in DOMAIN @ |->
                          IF k \in matching
                          THEN [@[k] EXCEPT !.getters = @ \cup {getter.id}]
                          ELSE @[k]]]
            insert_in_getters ==
                InsertInMap_start(s1.getter_by_id, Pair(getter.id, getter_data))
        IN  IF ~insert_in_getters.ok
            THEN Ret(s1, Err(DuplicateGetter(insert_in_getters.key)))
            ELSE Ret([s1 EXCEPT !.getter_by_id = insert_in_getters.map], Ok)

\* add_getter(getter).
add_getter(s, getter) ==
    IF getter.service \notin DOMAIN s.service_by_id
    THEN Ret(s, Err(NoSuchService(getter.service)))
    ELSE
    LET insert_in_service ==
            InsertInMap_start(s.service_by_id[getter.service].getters,
                              Pair(getter.id, getter))
    IN  IF ~insert_in_service.ok
        THEN Ret(s, Err(DuplicateGetter(insert_in_service.key)))
        ELSE
        LET r == aux_add_getter(s, getter)
        IN  IF ~r.res.ok
            THEN r   \* insert_in_service is dropped: rolled back
            ELSE Ret([r.st EXCEPT !.service_by_id[getter.service].getters =
                                      insert_in_service.map],
                     Ok)

\* remove_getter(id).
remove_getter(s, id) ==
    IF id \notin DOMAIN s.getter_by_id
    THEN Ret(s, Err(NoSuchGetter(id)))
    ELSE
    LET getter == s.getter_by_id[id]
        s1 == [s EXCEPT !.getter_by_id = Del(@, id)]
    IN  IF getter.getter.service \notin DOMAIN s1.service_by_id
        THEN Ret(s1, Err(NoSuchService(getter.getter.service)))
        ELSE IF id \notin DOMAIN s1.service_by_id[getter.getter.service].getters
        THEN Ret(s1, Err(NoSuchGetter(id)))
        ELSE Ret([s1 EXCEPT !.service_by_id[getter.getter.service].getters =
                                Del(@, id)],
                 Ok)

\* add_setter(setter).
add_setter(s, setter) ==
    IF setter.service \notin DOMAIN s.service_by_id
    THEN Ret(s, Err(NoSuchService(setter.service)))
    ELSE IF s.service_by_id[setter.service].adapter # setter.adapter
    THEN Ret(s, Err(ConflictingAdapter(s.service_by_id[setter.service].adapter,
                                     setter.adapter)))
    ELSE
    LET insert_in_service ==
            InsertInMap_start(s.service_by_id[setter.service].setters,
                              Pair(setter.id, setter))
    IN  IF ~insert_in_service.ok
        THEN Ret(s, Err(DuplicateSetter(insert_in_service.key)))
        ELSE
        LET insert_in_setters ==
                InsertInMap_start(s.setter_by_id,
                                  Pair(setter.id, SetterData_new(setter)))
        IN  IF ~insert_in_setters.ok
            THEN Ret(s, Err(DuplicateSetter(insert_in_setters.key)))
            ELSE Ret([s EXCEPT
                         !.service_by_id[setter.service].setters =
                             insert_in_service.map,
                         !.setter_by_id = insert_in_setters.map],
                     Ok)

\* remove_setter(id).
remove_setter(s, id) ==
    IF id \notin DOMAIN s.setter_by_id
    THEN Ret(s, Err(NoSuchSetter(id)))
    ELSE
    LET setter == s.setter_by_id[id]
        s1 == [s EXCEPT !.setter_by_id = Del(@, id)]
    IN  IF setter.setter.service \notin DOMAIN s1.service_by_id
        THEN Ret(s1, Err(NoSuchService(setter.setter.service)))
        ELSE IF id \notin DOMAIN s1.service_by_id[setter.setter.service].setters
        THEN Ret(s1, Err(NoSuchSetter(id)))
        ELSE Ret([s1 EXCEPT !.service_by_id[setter.setter.service].setters =
                                Del(@, id)],
                 Ok)

-----------------------------------------------------------------------------
(* AdapterManagerState: watches. *)

\* Op::Execute(Execute::TriggerWatch { key, event }).
TriggerWatch(key, kind, from) ==
    [type |-> "TriggerWatch", key |-> key, event |-> kind, from |-> from]

\* Op::Execute(Execute::UnregisterChannelWatch(key)).
UnregisterChannelWatch(key) == [type |-> "UnregisterChannelWatch", key |-> key]

\* A with_channels_mut that forgets its selectors: cb is called on every getter.
with_channels_mut_unselective(selectors, map) == DOMAIN map

\* with_channels_mut(selectors, getter_by_id, cb): the getters cb is called on.
with_channels_mut(selectors, map) ==
    {id \in DOMAIN map : MatchesAny(map[id].getter, selectors)}

\* WatchMap::create.
WatchMap_create(s, selectors, range) ==
    LET id == s.watchers.counter
    IN  [s EXCEPT !.watchers.counter = id + 1,
                  !.watchers.watchers = @ \cup {id},
                  !.watcher_data = Put(@, id, WatcherData_new(id, selectors, range))]

\* The getters register_channel_watch subscribes to at their adapters: the
\* matching getters whose adapter is registered, unless the watch is about
\* the topology only.
Subscribed(s, matching, range) ==
    IF range \in {"Exactly", "Always"}
    THEN {id \in matching :
             s.getter_by_id[id].getter.adapter \in DOMAIN s.adapter_by_id}
    ELSE {}

\* The matching getters for which register_channel_watch finds no adapter:
\* the condition of its debug_assert.
Orphans(s, matching) ==
    {id \in matching :
        s.getter_by_id[id].getter.adapter \notin DOMAIN s.adapter_by_id}

\* A register_channel_watch that gives up subscribing at the first getter for
\* which the adapter's register_watch fails.
register_channel_watch_stopping(s, selectors, range, order, failing) ==
    LET key == s.watchers.counter
        s1 == WatchMap_create(s, selectors, range)
        matching == with_channels_mut(selectors, s1.getter_by_id)
        subscribed == Subscribed(s1, matching, range)
        failures == {i \in DOMAIN order : order[i] \in subscribed \cap failing}
        stop == IF failures = {} THEN Len(order) + 1
                ELSE CHOOSE i \in failures : \A j \in failures : i <= j
        reached == {order[i] : i \in {j \in DOMAIN order : j < stop}}
        s2 == [s1 EXCEPT
                  !.getter_by_id =
                      [id \in DOMAIN @ |->
                          IF id \in matching
                          THEN [@[id] EXCEPT !.watchers = @ \cup {key}]
                          ELSE @[id]],
                  !.watcher_data[key].getters = @ \cup matching,
                  !.watcher_data[key].guards = @ \cup (subscribed \cap reached)]
    IN  [st |-> s2, key |-> key, failed |-> subscribed \cap failing,
         orphans |-> Orphans(s1, matching),
         sent |-> IF failures = {} THEN <<>>
                  ELSE <<TriggerWatch(key, "InitializationError", order[stop])>>]

\* register_channel_watch(selectors, range, on_event). order is the order in
\* which the map yields the matching getters; failing are the getters for
\* which the adapter's register_watch returns an error. Returns the state, the
\* key of the WatchGuard, the getters for which register_watch was called and
\* failed, the getters without adapter, and the messages sent to the channel.
register_channel_watch(s, selectors, range, order, failing) ==
    LET key == s.watchers.counter
        s1 == WatchMap_create(s, selectors, range)
        matching == with_channels_mut(selectors, s1.getter_by_id)
        subscribed == Subscribed(s1, matching, range)
        s2 == [s1 EXCEPT
                  !.getter_by_id =
                      [id \in DOMAIN @ |->
                          IF id \in matching
                          THEN [@[id] EXCEPT !.watchers = @ \cup {key}]
                          ELSE @[id]],
                  !.watcher_data[key].getters = @ \cup matching,
                  \* register_single_channel_watch_values: Ok(guard)
                  !.watcher_data[key].guards = @ \cup (subscribed \ failing)]
        \* register_single_channel_watch_values: Err(err)
        errors == SelectSeq(order, LAMBDA id : id \in subscribed \cap failing)
    IN  [st |-> s2, key |-> key, failed |-> subscribed \cap failing,
         orphans |-> Orphans(s1, matching),
         sent |-> [i \in DOMAIN errors |->
                      TriggerWatch(key, "InitializationError", errors[i])]]

\* A trigger_watch that calls on_event for every key that was ever created.
trigger_watch_of_any_key(s, key) ==
    key < s.watchers.counter

\* trigger_watch(key, event): whether on_event is called.
trigger_watch(s, key) ==
    /\ key \in s.watchers.watchers
    /\ ~s.watcher_data[key].is_dropped

\* The loop of unregister_channel_watch over the watcher's getters, in the
\* order the HashSet yields them; a getter that is gone ends the function.
RECURSIVE remove_from_getters(_, _, _)
remove_from_getters(s, key, order) ==
    IF order = <<>> THEN s
    ELSE IF Head(order) \notin DOMAIN s.getter_by_id THEN s
    ELSE remove_from_getters(
             [s EXCEPT !.getter_by_id[Head(order)].watchers = @ \ {key}],
             key, Tail(order))

\* The getters for which the loop of unregister_channel_watch finds that
\* getter.watchers.remove(&watcher_data) removes nothing: the condition of its
\* debug_assert.
RECURSIVE unlinked_getters(_, _, _)
unlinked_getters(s, key, order) ==
    IF order = <<>> THEN {}
    ELSE IF Head(order) \notin DOMAIN s.getter_by_id THEN {}
    ELSE (IF key \in s.getter_by_id[Head(order)].watchers THEN {} ELSE {Head(order)})
             \cup unlinked_getters(s, key, Tail(order))

\* unregister_channel_watch(key).
unregister_channel_watch(s, key, order) ==
    IF key \notin s.watchers.watchers
    THEN s
    ELSE remove_from_getters([s EXCEPT !.watchers.watchers = @ \ {key}],
                             key, order)

\* The orders in which a HashMap or HashSet may yield the elements of S.
Orders(S) ==
    {o \in [1..Cardinality(S) -> S] : \A x \in S : \E i \in DOMAIN o : o[i] = x}

-----------------------------------------------------------------------------
(* AdapterManagerState: queries and tags. *)

\* A ServiceSelector: absent fields (None) match everything, present fields
\* are and-ed.
ServiceSelector(id, tags) == [id |-> id, tags |-> tags]

\* selector.matches(&service).
ServiceMatches(service, selector) ==
    /\ selector.id = None \/ selector.id = service.id
    /\ selector.tags \subseteq service.tags

\* The elements of a Vec.
Elements(vec) == {vec[i] : i \in DOMAIN vec}

\* with_services(selectors, cb): the ids of the services cb is called on, in
\* the order in which service_by_id yields them.
with_services(s, selectors, order) ==
    SelectSeq(order, LAMBDA id :
        /\ id \in DOMAIN s.service_by_id
        /\ \E i \in DOMAIN selectors :
               ServiceMatches(s.service_by_id[id], selectors[i]))

\* get_services(selectors): a clone of each service.
get_services(s, selectors, order) ==
    LET found == with_services(s, selectors, order)
    IN  [i \in DOMAIN found |-> s.service_by_id[found[i]]]

\* Tagged::insert_tags / remove_tags, and the same loops over a service's
\* tag set.
\* An insert_tags that replaces the tag set by the given tags.
insert_tags_replacing(tag_set, tags) == Elements(tags)

insert_tags(tag_set, tags) == tag_set \cup Elements(tags)
remove_tags(tag_set, tags) == tag_set \ Elements(tags)

\* add_service_tags(selectors, tags): insert_tags on each matching service;
\* the calls of cb are counted.
add_service_tags(s, selectors, tags, order) ==
    LET found == with_services(s, selectors, order)
    IN  Ret([s EXCEPT !.service_by_id =
                [id \in DOMAIN @ |->
                    IF id \in Elements(found)
                    THEN [@[id] EXCEPT !.tags = insert_tags(@, tags)]
                    ELSE @[id]]],
            Len(found))

\* remove_service_tags(selectors, tags): remove_tags on each matching service.
remove_service_tags(s, selectors, tags, order) ==
    LET found == with_services(s, selectors, order)
    IN  Ret([s EXCEPT !.service_by_id =
                [id \in DOMAIN @ |->
                    IF id \in Elements(found)
                    THEN [@[id] EXCEPT !.tags = remove_tags(@, tags)]
                    ELSE @[id]]],
            Len(found))

\* Deref of GetterData and SetterData: the channel.
ChannelOf(data) ==
    IF "getter" \in DOMAIN data THEN data.getter ELSE data.setter

\* The channel of a GetterData or SetterData, replaced.
WithChannel(data, channel) ==
    IF "getter" \in DOMAIN data
    THEN [data EXCEPT !.getter = channel]
    ELSE [data EXCEPT !.setter = channel]

\* A with_channels that calls cb on the channels every selector matches.
with_channels_all_selectors(selectors, map, order) ==
    SelectSeq(order, LAMBDA id :
        /\ id \in DOMAIN map
        /\ \A i \in DOMAIN selectors : ChannelMatches(ChannelOf(map[id]), selectors[i]))

\* with_channels(selectors, map, cb): the ids cb is called on, in the order
\* in which the map yields them.
with_channels(selectors, map, order) ==
    SelectSeq(order, LAMBDA id : id \in DOMAIN map
                                 /\ MatchesAny(ChannelOf(map[id]), selectors))

\* get_channels(selectors, map): a clone of each matching channel.
get_channels(selectors, map, order) ==
    LET found == with_channels(selectors, map, order)
    IN  [i \in DOMAIN found |-> ChannelOf(map[found[i]])]

\* remove_channel_tags(selectors, tags, map): the map it leaves and the
\* number of calls of cb; with_channels_mut visits what with_channels visits.
remove_channel_tags(selectors, tags, map, order) ==
    LET found == with_channels(selectors, map, order)
    IN  [map |-> [id \in DOMAIN map |->
                     IF id \in Elements(found)
                     THEN WithChannel(map[id],
                              [ChannelOf(map[id]) EXCEPT
                                  !.tags = remove_tags(@, tags)])
                     ELSE map[id]],
         res |-> Len(found)]

\* An add_channel_tags that counts the tags it inserted, not the channels.
add_channel_tags_counting_changes(selectors, tags, map, order) ==
    LET found == with_channels(selectors, map, order)
        inserted(id) == IF id \in Elements(found)
                        THEN Elements(tags) \ ChannelOf(map[id]).tags
                        ELSE {}
        RECURSIVE Sum(_)
        Sum(ids) == IF ids = {} THEN 0
                    ELSE LET id == First(ids)
                         IN  Cardinality(inserted(id)) + Sum(ids \ {id})
    IN  [map |-> [id \in DOMAIN map |->
                     WithChannel(map[id],
                         [ChannelOf(map[id]) EXCEPT !.tags = @ \cup inserted(id)])],
         res |-> Sum(DOMAIN map)]

\* add_channel_tags(selectors, tags, map): the map it leaves and the number
\* of calls of cb.
add_channel_tags(selectors, tags, map, order) ==
    LET found == with_channels(selectors, map, order)
    IN  [map |-> [id \in DOMAIN map |->
                     IF id \in Elements(found)
                     THEN WithChannel(map[id],
                              [ChannelOf(map[id]) EXCEPT
                                  !.tags = insert_tags(@, tags)])
                     ELSE map[id]],
         res |-> Len(found)]

-----------------------------------------------------------------------------
(* AdapterManagerState: values. *)

\* Value: only its type is kept. NoValue is the None of an Option<Value>.
Value(type) == [type |-> type]
NoValue == [type |-> None]

\* What an adapter answers for a getter: Ok(Some(value)), Ok(None) or
\* Err(error); for a setter: Ok(()), which is Ok, or Err(error).
OkValue(value) == [ok |-> TRUE, value |-> value]

\* result.map_err(APIError::AdapterError).
AdapterError(error) == [kind |-> "AdapterError", error |-> error]
map_err(result) ==
    IF result.ok THEN result ELSE Err(AdapterError(result.err))

\* A sequence of sequences, flattened.
RECURSIVE Flatten(_)
Flatten(seqs) ==
    IF seqs = <<>> THEN <<>> ELSE Head(seqs) \o Flatten(Tail(seqs))

\* Adapter::fetch_values(set) and Adapter::send_values(values) of an adapter
\* that answers each id it is asked about, once, with answer[id].
Adapter_fetch_values(answer, set) ==
    [i \in DOMAIN set |-> [id |-> set[i], result |-> answer[set[i]]]]
Adapter_send_values(answer, values) ==
    [i \in DOMAIN values |-> [id |-> values[i].id, result |-> answer[values[i].id]]]

\* got.drain(..).map(|(id, result)| (id, result.map_err(..))).collect()
Collected(got) ==
    [i \in DOMAIN got |-> [id |-> got[i].id, result |-> map_err(got[i].result)]]

\* fetch_channel_values(selectors). order is the order in which getter_by_id
\* yields its getters, adapters the order in which per_adapter yields its
\* keys, answer what the adapters return. The result is the ResultMap.
fetch_channel_values(s, selectors, order, adapters, answer) ==
    LET matched == with_channels(selectors, s.getter_by_id, order)
        per_adapter(a) ==
            SelectSeq(matched, LAMBDA id : s.getter_by_id[id].getter.adapter = a)
        got(a) ==
            IF per_adapter(a) = <<>> \/ a \notin DOMAIN s.adapter_by_id
            THEN <<>>
            ELSE Collected(Adapter_fetch_values(answer, per_adapter(a)))
    IN  Flatten([i \in DOMAIN adapters |-> got(adapters[i])])

\* The (setter, value) pairs of one element of keyvalues.
Fanned(s, selectors, value, order) ==
    LET matched == with_channels(selectors, s.setter_by_id, order)
    IN  [i \in DOMAIN matched |->
            [id |-> matched[i], value |-> value,
             adapter |-> s.setter_by_id[matched[i]].setter.adapter]]

\* A send_channel_values in which one error of an adapter becomes the result
\* of every setter of that adapter's batch.
send_channel_values_poisoned(s, keyvalues, order, adapters, answer) ==
    LET all == Flatten([i \in DOMAIN keyvalues |->
                   Fanned(s, keyvalues[i].selectors, keyvalues[i].value, order)])
        per_adapter(a) == SelectSeq(all, LAMBDA p : p.adapter = a)
        payload(a) ==
            IF a \in DOMAIN s.adapter_by_id THEN per_adapter(a) ELSE <<>>
        answered(a) == Collected(Adapter_send_values(answer, per_adapter(a)))
        errors(a) == SelectSeq(answered(a), LAMBDA e : ~e.result.ok)
        got(a) ==
            IF per_adapter(a) = <<>> \/ a \notin DOMAIN s.adapter_by_id
            THEN <<>>
            ELSE IF errors(a) = <<>> THEN answered(a)
            ELSE [i \in DOMAIN answered(a) |->
                     [id |-> answered(a)[i].id, result |-> errors(a)[1].result]]
    IN  [res |-> Flatten([i \in DOMAIN adapters |-> got(adapters[i])]),
         payload |-> [i \in DOMAIN adapters |->
                         [adapter |-> adapters[i], values |-> payload(adapters[i])]]]

\* send_channel_values(keyvalues). Returns the ResultMap and, for each
\* adapter, the payload its send_values was called with (the empty payload
\* when it was not called).
send_channel_values(s, keyvalues, order, adapters, answer) ==
    LET all == Flatten([i \in DOMAIN keyvalues |->
                   Fanned(s, keyvalues[i].selectors, keyvalues[i].value, order)])
        per_adapter(a) == SelectSeq(all, LAMBDA p : p.adapter = a)
        payload(a) ==
            IF a \in DOMAIN s.adapter_by_id THEN per_adapter(a) ELSE <<>>
        got(a) ==
            IF per_adapter(a) = <<>> \/ a \notin DOMAIN s.adapter_by_id
            THEN <<>>
            ELSE Collected(Adapter_send_values(answer, per_adapter(a)))
    IN  [res |-> Flatten([i \in DOMAIN adapters |-> got(adapters[i])]),
         payload |-> [i \in DOMAIN adapters |->
                         [adapter |-> adapters[i], values |-> payload(adapters[i])]]]

-----------------------------------------------------------------------------
(* Execute: the messages of the front-end, and the dispatch to the methods. *)

AddAdapter(id, services) == [type |-> "AddAdapter", id |-> id, services |-> services]
RemoveAdapter(id) == [type |-> "RemoveAdapter", id |-> id]
AddService(adapter, service) ==
    [type |-> "AddService", adapter |-> adapter, service |-> service]
RemoveService(adapter, id) == [type |-> "RemoveService", adapter |-> adapter, id |-> id]
AddGetter(getter) == [type |-> "AddGetter", setter |-> getter]
RemoveGetter(id) == [type |-> "RemoveGetter", id |-> id]
AddSetter(setter) == [type |-> "AddSetter", setter |-> setter]
RemoveSetter(id) == [type |-> "RemoveSetter", id |-> id]
RegisterChannelWatch(selectors, range) ==
    [type |-> "RegisterChannelWatch", selectors |-> selectors, range |-> range]
FetchChannelValues(selectors) ==
    [type |-> "FetchChannelValues", selectors |-> selectors]
SendChannelValues(keyvalues) ==
    [type |-> "SendChannelValues", keyvalues |-> keyvalues]
GetServices(selectors) == [type |-> "GetServices", selectors |-> selectors]
GetGetters(selectors) == [type |-> "GetGetters", selectors |-> selectors]
GetSetters(selectors) == [type |-> "GetSetters", selectors |-> selectors]
AddServiceTags(selectors, tags) ==
    [type |-> "AddServiceTags", selectors |-> selectors, tags |-> tags]
RemoveServiceTags(selectors, tags) ==
    [type |-> "RemoveServiceTags", selectors |-> selectors, tags |-> tags]
AddGetterTags(selectors, tags) ==
    [type |-> "AddGetterTags", selectors |-> selectors, tags |-> tags]
RemoveGetterTags(selectors, tags) ==
    [type |-> "RemoveGetterTags", selectors |-> selectors, tags |-> tags]
AddSetterTags(selectors, tags) ==
    [type |-> "AddSetterTags", selectors |-> selectors, tags |-> tags]
RemoveSetterTags(selectors, tags) ==
    [type |-> "RemoveSetterTags", selectors |-> selectors, tags |-> tags]

\* The table a query or a tag message goes through.
TableOf(s, msg) ==
    CASE msg.type \in {"GetServices", "AddServiceTags", "RemoveServiceTags"} ->
             s.service_by_id
      [] msg.type \in {"GetGetters", "AddGetterTags", "RemoveGetterTags"} ->
             s.getter_by_id
      [] msg.type \in {"GetSetters", "AddSetterTags", "RemoveSetterTags"} ->
             s.setter_by_id

\* AdapterManagerState::execute for the queries and the tag messages, which
\* answer with a value. order is the order in which the table yields its
\* entries.
execute_infallible(s, msg, order) ==
    LET getters(r) == Ret([s EXCEPT !.getter_by_id = r.map], r.res)
        setters(r) == Ret([s EXCEPT !.setter_by_id = r.map], r.res)
    IN  CASE msg.type = "GetServices" ->
                 Ret(s, get_services(s, msg.selectors, order))
          [] msg.type = "AddServiceTags" ->
                 add_service_tags(s, msg.selectors, msg.tags, order)
          [] msg.type = "RemoveServiceTags" ->
                 remove_service_tags(s, msg.selectors, msg.tags, order)
          [] msg.type = "GetGetters" ->
                 Ret(s, get_channels(msg.selectors, s.getter_by_id, order))
          [] msg.type = "GetSetters" ->
                 Ret(s, get_channels(msg.selectors, s.setter_by_id, order))
          [] msg.type = "AddGetterTags" ->
                 getters(add_channel_tags(msg.selectors, msg.tags, s.getter_by_id, order))
          [] msg.type = "AddSetterTags" ->
                 setters(add_channel_tags(msg.selectors, msg.tags, s.setter_by_id, order))
          [] msg.type = "RemoveGetterTags" ->
                 getters(remove_channel_tags(msg.selectors, msg.tags, s.getter_by_id, order))
          [] msg.type = "RemoveSetterTags" ->
                 setters(remove_channel_tags(msg.selectors, msg.tags, s.setter_by_id, order))

\* AdapterManagerState::execute for the messages that answer with a Result.
\* Whatever a handler unlinked is dropped when it returns.
execute(s, msg) ==
    LET r == CASE msg.type = "AddAdapter" -> add_adapter(s, msg.id, msg.services)
               [] msg.type = "RemoveAdapter" -> remove_adapter(s, msg.id)
               [] msg.type = "AddService" -> add_service(s, msg.adapter, msg.service)
               [] msg.type = "RemoveService" -> remove_service(s, msg.adapter, msg.id)
               [] msg.type = "AddSetter" -> add_setter(s, msg.setter)
               [] msg.type = "RemoveSetter" -> remove_setter(s, msg.id)
               [] msg.type = "AddGetter" -> add_getter(s, msg.setter)
               [] msg.type = "RemoveGetter" -> remove_getter(s, msg.id)
    IN  Ret(DropUnreferenced(r.st), r.res)

-----------------------------------------------------------------------------
(* Inputs of the clients. A run draws the calls of its clients from one of   *)
(* the input sets below; the run keeps its set.                             *)

NoTags == {}
NoChannels == EmptyMap

\* A service without channels.
PlainService(id, a) == Service(id, a, NoTags, NoChannels, NoChannels)

\* A service that brings getter g1.
ServiceWithGetter(id, a) ==
    Service(id, a, NoTags, Pair("g1", Channel("g1", id, a, NoTags)), NoChannels)

\* A service that brings getter g2 and a setter of another adapter.
ServiceWithForeignSetter ==
    Service("s1", "a1", NoTags,
            Pair("g2", Channel("g2", "s1", "a1", NoTags)),
            Pair("t1", Channel("t1", "s1", "a2", NoTags)))

\* A service that names adapter a1, with a getter that names adapter a2.
ServiceOfAnotherAdapter ==
    Service("s1", "a1", NoTags,
            Pair("g2", Channel("g2", "s1", "a2", NoTags)), NoChannels)

SelectAll == Selector(None, None, NoTags)

\* Exactly<Range>: Exactly::Exactly(range), Exactly::Always, Exactly::Never.
Ranges == {"Exactly", "Always", "Never"}

\* No query and no change of tags.
NoQueries ==
    [get_services |-> {}, add_service_tag |-> {}, remove_service_tag |-> {},
     get_getter_channels |-> {}, get_setter_channels |-> {},
     add_getter_tag |-> {}, remove_getter_tag |-> {},
     add_setter_tag |-> {}, remove_setter_tag |-> {}]

\* Every adapter, service and channel id, in every combination; no watch.
TopologyInputs ==
    [name |-> "topology",
     add_adapter |->
        {AddAdapter(id, l) : id \in AdapterIds,
            l \in {<<>>, <<PlainService("s1", "a1")>>,
                   <<ServiceWithGetter("s2", "a2"), PlainService("s2", "a2")>>}},
     remove_adapter |-> {RemoveAdapter(id) : id \in AdapterIds},
     add_service |->
        {AddService(a, PlainService(id, b)) :
            a \in AdapterIds, id \in ServiceIds, b \in AdapterIds}
          \cup {AddService(a, ServiceWithGetter(id, a)) :
                   a \in AdapterIds, id \in ServiceIds}
          \cup {AddService("a1", ServiceWithForeignSetter),
                AddService("a2", ServiceOfAnotherAdapter)},
     remove_service |->
        {RemoveService(a, id) : a \in AdapterIds, id \in ServiceIds},
     add_getter |->
        {AddGetter(Channel(g, sv, a, NoTags)) :
            g \in GetterIds, sv \in ServiceIds, a \in AdapterIds},
     remove_getter |-> {RemoveGetter(id) : id \in GetterIds},
     add_setter |->
        {AddSetter(Channel(t, sv, a, NoTags)) :
            t \in SetterIds, sv \in ServiceIds, a \in AdapterIds},
     remove_setter |-> GetterIds \cup SetterIds,
     watch |-> {},
     failing |-> {FALSE},
     fetch |-> {}, send |-> {}, answers |-> {}] @@ NoQueries

\* One adapter with two services and two getters, and watches on them.
WatchInputs ==
    [name |-> "watch",
     add_adapter |->
        {AddAdapter("a1", <<>>), AddAdapter("a1", <<ServiceWithGetter("s1", "a1")>>)},
     remove_adapter |-> {RemoveAdapter("a1")},
     add_service |->
        {AddService("a1", PlainService("s2", "a1")),
         AddService("a1", ServiceWithGetter("s1", "a1"))},
     remove_service |-> {RemoveService("a1", "s1")},
     add_getter |->
        {AddGetter(Channel("g1", "s1", "a1", NoTags)),
         AddGetter(Channel("g1", "s2", "a1", NoTags)),
         AddGetter(Channel("g2", "s1", "a1", NoTags))},
     remove_getter |-> {RemoveGetter(id) : id \in GetterIds},
     add_setter |-> {},
     remove_setter |-> {},
     watch |->
        {RegisterChannelWatch(l, r) :
            l \in {<<SelectAll>>,
                   <<Selector("g1", None, NoTags)>>,
                   <<Selector(None, "s2", NoTags), Selector("g2", None, NoTags)>>},
            r \in {"Always", "Never"}},
     failing |-> {FALSE, TRUE},
     fetch |-> {}, send |-> {}, answers |-> {}] @@ NoQueries

\* One element of the keyvalues of send_channel_values.
KeyValue(selectors, value) == [selectors |-> selectors, value |-> value]

\* What the adapters answer for each channel: a value of the declared kind,
\* a value of another type, no value, or an error.
Answers ==
    LET on == OkValue(Value(OnOff))
        open == OkValue(Value(OpenClosed))
        none == OkValue(NoValue)
        bad == Err("InternalError")
        Answer(g1, g2, t1, t2) ==
            [id \in {"g1", "g2", "t1", "t2"} |->
                CASE id = "g1" -> g1 [] id = "g2" -> g2
                  [] id = "t1" -> t1 [] id = "t2" -> t2]
    IN  {Answer(on, on, Ok, Ok), Answer(open, on, Ok, Ok),
         Answer(bad, none, bad, Ok), Answer(on, bad, Ok, bad)}

\* Two adapters with a service each and two getters and two setters, in one
\* service or in both; service s2 can also be given to adapter a1 while it
\* names adapter a2.
\* The clients fetch and send values.
ValueInputs ==
    [name |-> "value",
     add_adapter |-> {AddAdapter(id, <<>>) : id \in AdapterIds},
     remove_adapter |-> {RemoveAdapter("a2")},
     add_service |->
        {AddService("a1", PlainService("s1", "a1")),
         AddService("a2", PlainService("s2", "a2")),
         AddService("a1", PlainService("s2", "a2"))},
     remove_service |-> {},
     add_getter |->
        {AddGetter(Channel("g1", "s1", "a1", NoTags)),
         AddGetter(Channel("g2", "s1", "a1", NoTags)),
         AddGetter(Channel("g2", "s2", "a2", NoTags))},
     remove_getter |-> {},
     add_setter |->
        {AddSetter(Channel("t1", "s1", "a1", NoTags)),
         AddSetter(Channel("t2", "s1", "a1", NoTags)),
         AddSetter(Channel("t2", "s2", "a2", NoTags))},
     remove_setter |-> {},
     watch |-> {},
     failing |-> {FALSE},
     fetch |->
        {FetchChannelValues(l) :
            l \in {<<>>, <<SelectAll>>, <<Selector("g2", None, NoTags)>>}},
     send |->
        {SendChannelValues(l) :
            l \in {<<KeyValue(<<SelectAll>>, Value(OnOff))>>,
                   <<KeyValue(<<SelectAll>>, Value(OpenClosed)),
                     KeyValue(<<Selector("t2", None, NoTags)>>, Value(OnOff))>>}},
     answers |-> Answers] @@ NoQueries

\* One adapter with two services, two getters and a setter; the clients tag
\* them and query them.
TagInputs ==
    [name |-> "tag",
     add_adapter |-> {AddAdapter("a1", <<>>)},
     remove_adapter |-> {},
     add_service |->
        {AddService("a1", PlainService(id, "a1")) : id \in ServiceIds},
     remove_service |-> {},
     add_getter |->
        {AddGetter(Channel("g1", "s1", "a1", NoTags)),
         AddGetter(Channel("g2", "s2", "a1", NoTags))},
     remove_getter |-> {},
     add_setter |-> {AddSetter(Channel("t1", "s1", "a1", NoTags))},
     remove_setter |-> {},
     watch |-> {},
     failing |-> {FALSE},
     fetch |-> {}, send |-> {}, answers |-> {},
     get_services |->
        {GetServices(l) :
            l \in {<<>>, <<ServiceSelector(None, NoTags)>>,
                   <<ServiceSelector("s1", NoTags), ServiceSelector(None, {"x"})>>,
                   <<ServiceSelector("s2", {"x"})>>}},
     add_service_tag |->
        {AddServiceTags(<<ServiceSelector(None, NoTags)>>, <<"x">>),
         AddServiceTags(<<ServiceSelector("s1", NoTags),
                          ServiceSelector(None, NoTags)>>, <<"x", "x">>)},
     remove_service_tag |->
        {RemoveServiceTags(<<ServiceSelector(None, {"x"})>>, <<"x">>),
         RemoveServiceTags(<<>>, <<"x">>)},
     get_getter_channels |->
        {GetGetters(l) :
            l \in {<<>>, <<SelectAll>>, <<Selector("g1", None, {"x"})>>,
                   <<Selector(None, "s1", NoTags), Selector("g2", None, NoTags)>>}},
     get_setter_channels |->
        {GetSetters(l) : l \in {<<SelectAll>>, <<Selector(None, None, {"x"})>>}},
     add_getter_tag |->
        {AddGetterTags(<<SelectAll>>, <<"x">>),
         AddGetterTags(<<Selector("g1", None, NoTags)>>, <<"x", "y">>),
         AddGetterTags(<<Selector("g1", None, NoTags), SelectAll>>, <<"x">>)},
     remove_getter_tag |->
        {RemoveGetterTags(<<Selector(None, None, {"x"})>>, <<"x">>),
         RemoveGetterTags(<<SelectAll>>, <<"x", "y">>),
         RemoveGetterTags(<<>>, <<"x">>)},
     add_setter_tag |-> {AddSetterTags(<<SelectAll>>, <<"x">>)},
     remove_setter_tag |->
        {RemoveSetterTags(<<Selector(None, "s1", NoTags)>>, <<"x">>)}]

\* An adapter with service s1 and getter g1, and with service s2, which names
\* adapter a2, and its getter g2; adapter a2 comes and goes. A watch on all
\* getters.
OrphanInputs ==
    [name |-> "orphan",
     add_adapter |-> {AddAdapter(id, <<>>) : id \in AdapterIds},
     remove_adapter |-> {RemoveAdapter("a2")},
     add_service |->
        {AddService("a1", PlainService("s1", "a1")),
         AddService("a1", PlainService("s2", "a2"))},
     remove_service |-> {},
     add_getter |->
        {AddGetter(Channel("g1", "s1", "a1", NoTags)),
         AddGetter(Channel("g2", "s2", "a2", NoTags))},
     remove_getter |-> {RemoveGetter("g2")},
     add_setter |-> {},
     remove_setter |-> {},
     watch |-> {RegisterChannelWatch(<<SelectAll>>, "Always")},
     failing |-> {FALSE, TRUE},
     fetch |-> {}, send |-> {}, answers |-> {}] @@ NoQueries

\* An adapter with service s1, getter g1 without tags and getter g2 tagged x;
\* a watch on the getters tagged x, and tags that come and go.
TaggedWatchInputs ==
    [name |-> "tagged watch",
     add_adapter |-> {AddAdapter("a1", <<PlainService("s1", "a1")>>)},
     remove_adapter |-> {},
     add_service |-> {},
     remove_service |-> {},
     add_getter |->
        {AddGetter(Channel("g1", "s1", "a1", NoTags)),
         AddGetter(Channel("g2", "s1", "a1", {"x"}))},
     remove_getter |-> {},
     add_setter |-> {},
     remove_setter |-> {},
     watch |-> {RegisterChannelWatch(<<Selector(None, None, {"x"})>>, "Always")},
     failing |-> {FALSE},
     fetch |-> {}, send |-> {}, answers |-> {},
     get_services |-> {}, add_service_tag |-> {}, remove_service_tag |-> {},
     get_getter_channels |-> {}, get_setter_channels |-> {},
     add_getter_tag |-> {AddGetterTags(<<Selector("g1", None, NoTags)>>, <<"x">>)},
     remove_getter_tag |-> {RemoveGetterTags(<<SelectAll>>, <<"x">>)},
     add_setter_tag |-> {}, remove_setter_tag |-> {}]

InputSets ==
    {TopologyInputs, WatchInputs, ValueInputs, TagInputs, OrphanInputs,
     TaggedWatchInputs}

-----------------------------------------------------------------------------
(* The system: clients, adapters' callbacks and the back-end thread.        *)
(*                                                                         *)
(* A method of AdapterManager sends its message to the back-end thread,    *)
(* which executes the messages one by one in the order of the channel. The *)
(* sending of a client's message changes nothing that another step reads,  *)
(* so a client operation is one step, taken when the back-end executes it; *)
(* the messages of dropped guards and of adapter callbacks wait in `queue`. *)

SetState(s) ==
    /\ adapter_by_id' = s.adapter_by_id
    /\ service_by_id' = s.service_by_id
    /\ getter_by_id' = s.getter_by_id
    /\ setter_by_id' = s.setter_by_id
    /\ watchers' = s.watchers
    /\ watcher_data' = s.watcher_data

\* The state of the back-end at the start of a run.
SetStateInit(s) ==
    /\ adapter_by_id = s.adapter_by_id
    /\ service_by_id = s.service_by_id
    /\ getter_by_id = s.getter_by_id
    /\ setter_by_id = s.setter_by_id
    /\ watchers = s.watchers
    /\ watcher_data = s.watcher_data

state_vars ==
    <<adapter_by_id, service_by_id, getter_by_id, setter_by_id, watchers,
      watcher_data>>

\* The back-end thread, the drop of the manager and the clients' dispatches.
manager_vars == <<thread, manager, stop_ack, clients, executed>>

\* AdapterManagerState::new, WatchMap::new, and an empty channel.
Init ==
    /\ adapter_by_id = EmptyMap
    /\ service_by_id = EmptyMap
    /\ getter_by_id = EmptyMap
    /\ setter_by_id = EmptyMap
    /\ watchers = [counter |-> 0, watchers |-> {}]
    /\ watcher_data = EmptyMap
    /\ queue = <<>>
    /\ held = {}
    /\ inputs \in InputSets
    /\ last = [op |-> "new"]
    /\ thread = "running"
    /\ manager = "live"
    /\ stop_ack = "none"
    /\ clients = [c \in Clients |-> 0]
    /\ executed = <<>>

\* The id of the entity a message adds or removes.
Subject(msg) ==
    CASE msg.type = "AddService" -> msg.service.id
      [] msg.type \in {"AddGetter", "AddSetter"} -> msg.setter.id
      [] OTHER -> msg.id

\* AdapterManager::dispatch of a message that answers with a Result, and its
\* execution by the back-end thread.
dispatch(msg) ==
    LET r == execute(State, msg)
    IN  /\ SetState(r.st)
        /\ last' = [op |-> msg.type, id |-> Subject(msg), res |-> r.res]
        /\ UNCHANGED <<queue, held, inputs, manager_vars>>

\* The methods of AdapterManager.
ManagerAddAdapter == \E msg \in inputs.add_adapter : dispatch(msg)

ManagerRemoveAdapter == \E msg \in inputs.remove_adapter : dispatch(msg)

ManagerAddService == \E msg \in inputs.add_service : dispatch(msg)

ManagerRemoveService == \E msg \in inputs.remove_service : dispatch(msg)

ManagerAddGetter == \E msg \in inputs.add_getter : dispatch(msg)

ManagerRemoveGetter == \E msg \in inputs.remove_getter : dispatch(msg)

ManagerAddSetter == \E msg \in inputs.add_setter : dispatch(msg)

\* AdapterManager::remove_setter takes an Id<Getter> and sends
\* Execute::RemoveGetter.
ManagerRemoveSetter == \E id \in inputs.remove_setter : dispatch(RemoveGetter(id))

\* AdapterManager::register_channel_watch and its execution; cb hands the
\* WatchGuard to the client.
ManagerRegisterChannelWatch ==
    \E msg \in inputs.watch :
        /\ watchers.counter < MaxWatchers
        /\ LET matching == with_channels_mut(msg.selectors, getter_by_id)
           IN  \E order \in Orders(matching) :
               \E failing \in {f \in SUBSET matching : f = {} \/ TRUE \in inputs.failing} :
                 LET r == register_channel_watch(State, msg.selectors, msg.range,
                                                 order, failing)
                 IN  /\ Len(queue) + Len(r.sent) <= MaxQueue
                     /\ SetState(r.st)
                     /\ queue' = queue \o r.sent
                     /\ held' = held \cup {r.key}
                     /\ last' = [op |-> msg.type, key |-> r.key,
                                 failed |-> r.failed, orphans |-> r.orphans]
        /\ UNCHANGED <<inputs, manager_vars>>

\* AdapterManager::dispatch of a query or of a tag message, and its execution
\* by the back-end thread; cb receives the answer.
dispatch_infallible(msg) ==
    \E order \in Orders(DOMAIN TableOf(State, msg)) :
        LET r == execute_infallible(State, msg, order)
        IN  /\ SetState(r.st)
            \* cb receives a Vec from a query and a usize from a tag method
            /\ last' = IF msg.type \in {"GetServices", "GetGetters", "GetSetters"}
                       THEN [op |-> msg.type, found |-> r.res]
                       ELSE [op |-> msg.type, count |-> r.res]
            /\ UNCHANGED <<queue, held, inputs, manager_vars>>

\* The queries and the tag methods of AdapterManager.
ManagerGetServices == \E msg \in inputs.get_services : dispatch_infallible(msg)

ManagerAddServiceTag == \E msg \in inputs.add_service_tag : dispatch_infallible(msg)

ManagerRemoveServiceTag ==
    \E msg \in inputs.remove_service_tag : dispatch_infallible(msg)

ManagerGetGetterChannels ==
    \E msg \in inputs.get_getter_channels : dispatch_infallible(msg)

ManagerGetSetterChannels ==
    \E msg \in inputs.get_setter_channels : dispatch_infallible(msg)

ManagerAddGetterTag == \E msg \in inputs.add_getter_tag : dispatch_infallible(msg)

ManagerAddSetterTag == \E msg \in inputs.add_setter_tag : dispatch_infallible(msg)

ManagerRemoveGetterTag ==
    \E msg \in inputs.remove_getter_tag : dispatch_infallible(msg)

ManagerRemoveSetterTag ==
    \E msg \in inputs.remove_setter_tag : dispatch_infallible(msg)

\* AdapterManager::fetch_channel_values and its execution; cb receives the
\* ResultMap. The adapters are asked while the back-end executes the message.
ManagerFetchChannelValues ==
    \E msg \in inputs.fetch : \E answer \in inputs.answers :
    \E order \in Orders(DOMAIN getter_by_id) : \E adapters \in Orders(AdapterIds) :
        /\ last' = [op |-> msg.type, selectors |-> msg.selectors,
                    answer |-> answer,
                    res |-> fetch_channel_values(State, msg.selectors, order,
                                                 adapters, answer)]
        /\ UNCHANGED <<state_vars, queue, held, inputs, manager_vars>>

\* AdapterManager::send_channel_values and its execution; cb receives the
\* ResultMap.
ManagerSendChannelValues ==
    \E msg \in inputs.send : \E answer \in inputs.answers :
    \E order \in Orders(DOMAIN setter_by_id) : \E adapters \in Orders(AdapterIds) :
        LET r == send_channel_values(State, msg.keyvalues, order, adapters, answer)
        IN  /\ last' = [op |-> msg.type, keyvalues |-> msg.keyvalues,
                        answer |-> answer, res |-> r.res, payload |-> r.payload]
            /\ UNCHANGED <<state_vars, queue, held, inputs, manager_vars>>

\* impl Drop for WatchGuard: a client lets go of a guard.
DropWatchGuard ==
    \E key \in held :
        /\ Len(queue) < MaxQueue
        /\ held' = held \ {key}
        /\ queue' = Append(queue, UnregisterChannelWatch(key))
        /\ last' = [op |-> "drop", key |-> key]
        /\ UNCHANGED <<state_vars, inputs, manager_vars>>

\* The values of the WatchEvent::Value messages of one callback that wait in
\* the channel.
InFlight(q, key, id) ==
    {q[i].value : i \in {j \in 1..Len(q) : /\ q[j].type = "TriggerWatch"
                                            /\ q[j].event = "Value"
                                            /\ q[j].key = key
                                            /\ q[j].from = id}}

\* The value an adapter emits next: adapters number the values of a getter, so
\* that a value emitted later carries a larger number than those in flight.
NextValue(q, key, id) ==
    LET flying == InFlight(q, key, id)
    IN  IF flying = {} THEN 1
        ELSE 1 + (CHOOSE v \in flying : \A w \in flying : w <= v)

\* The closure register_single_channel_watch_values gives to the adapter,
\* called by the adapter with a value while the adapter guard is alive.
AdapterCallback ==
    \E key \in DOMAIN watcher_data : \E id \in watcher_data[key].guards :
        LET value == NextValue(queue, key, id)
        IN  /\ Len(queue) < MaxQueue
            /\ value <= MaxEvents
            /\ queue' = IF watcher_data[key].is_dropped
                        THEN queue
                        ELSE Append(queue, TriggerWatch(key, "Value", id)
                                               @@ [value |-> value])
            /\ last' = [op |-> "callback", key |-> key,
                        sent |-> ~watcher_data[key].is_dropped]
            /\ UNCHANGED <<state_vars, held, inputs, manager_vars>>

\* A receiver that hands over the message sent last.
recv_newest(q) ==
    [msg |-> q[Len(q)], rest |-> SubSeq(q, 1, Len(q) - 1)]

\* rx.iter() of the back-end thread: the receiver of the channel hands over
\* the message sent first.
recv(q) ==
    [msg |-> Head(q), rest |-> Tail(q)]

\* The back-end thread takes TriggerWatch.
ExecuteTriggerWatch ==
    /\ queue # <<>>
    /\ recv(queue).msg.type = "TriggerWatch"
    /\ LET msg == recv(queue).msg
       IN  last' = [op |-> msg.type, key |-> msg.key, event |-> msg,
                    called |-> trigger_watch(State, msg.key)]
    /\ queue' = recv(queue).rest
    /\ UNCHANGED <<state_vars, held, inputs, manager_vars>>

\* The back-end thread takes UnregisterChannelWatch.
ExecuteUnregisterChannelWatch ==
    /\ queue # <<>>
    /\ recv(queue).msg.type = "UnregisterChannelWatch"
    /\ LET msg == recv(queue).msg
           getters == IF msg.key \in DOMAIN watcher_data
                      THEN watcher_data[msg.key].getters ELSE {}
       IN  \E order \in Orders(getters) :
             /\ SetState(DropUnreferenced(
                    unregister_channel_watch(State, msg.key, order)))
             /\ last' = [op |-> msg.type, key |-> msg.key,
                         absent |-> msg.key \notin watchers.watchers,
                         unlinked |-> IF msg.key \in watchers.watchers
                                      THEN unlinked_getters(State, msg.key, order)
                                      ELSE {}]
    /\ queue' = recv(queue).rest
    /\ UNCHANGED <<held, inputs, manager_vars>>

Next ==
    \/ ManagerAddAdapter
    \/ ManagerRemoveAdapter
    \/ ManagerAddService
    \/ ManagerRemoveService
    \/ ManagerAddGetter
    \/ ManagerRemoveGetter
    \/ ManagerAddSetter
    \/ ManagerRemoveSetter
    \/ ManagerRegisterChannelWatch
    \/ ManagerGetServices
    \/ ManagerAddServiceTag
    \/ ManagerRemoveServiceTag
    \/ ManagerGetGetterChannels
    \/ ManagerGetSetterChannels
    \/ ManagerAddGetterTag
    \/ ManagerAddSetterTag
    \/ ManagerRemoveGetterTag
    \/ ManagerRemoveSetterTag
    \/ ManagerFetchChannelValues
    \/ ManagerSendChannelValues
    \/ DropWatchGuard
    \/ AdapterCallback
    \/ ExecuteTriggerWatch
    \/ ExecuteUnregisterChannelWatch

Spec == Init /\ [][Next]_vars

\* The back-end thread keeps taking the messages of its channel: the loop of
\* AdapterManager::new blocks only on an empty channel.
FairSpec ==
    /\ Spec
    /\ WF_vars(ExecuteTriggerWatch)
    /\ WF_vars(ExecuteUnregisterChannelWatch)

-----------------------------------------------------------------------------
(* The AdapterManager and its back-end thread: the clients' messages wait in *)
(* the channel, the thread executes them one by one, and the drop of the     *)
(* manager stops the thread with Op::Stop.                                   *)

\* What each client dispatches, in its order.
Programs ==
    [c \in Clients |->
        IF c = "c1"
        THEN <<AddAdapter("a1", <<>>),
               AddService("a1", PlainService("s1", "a1")),
               AddGetter(Channel("g1", "s1", "a1", NoTags))>>
        ELSE <<AddAdapter("a1", <<ServiceWithGetter("s1", "a1")>>),
               RemoveService("a1", "s1"),
               RemoveAdapter("a1")>>]

ManagerInputs == [name |-> "manager", programs |-> Programs]

\* Op::Execute(msg), with the client that sent it and its rank for that
\* client; Op::Stop(tx).
OpExecute(c, n, msg) == msg @@ [client |-> c, seq |-> n]
OpStop == [type |-> "Stop"]

\* A send that puts the message ahead of those that wait.
Sender_send_first(q, op) == <<op>> \o q

\* Sender::send: the message goes behind those that wait.
Sender_send(q, op) == Append(q, op)

\* The state the back-end thread started from; what is left once the thread
\* has dropped its AdapterManagerState.
NewState ==
    [adapter_by_id |-> EmptyMap, service_by_id |-> EmptyMap,
     getter_by_id |-> EmptyMap, setter_by_id |-> EmptyMap,
     watchers |-> [counter |-> 0, watchers |-> {}], watcher_data |-> EmptyMap]

InitManager ==
    /\ SetStateInit(NewState)
    /\ queue = <<>>
    /\ held = {}
    /\ inputs = ManagerInputs
    /\ last = [op |-> "new"]
    /\ thread = "running"
    /\ manager = "live"
    /\ stop_ack = "none"
    /\ clients = [c \in Clients |-> 0]
    /\ executed = <<>>

\* A method of AdapterManager called by a client: dispatch sends the message
\* and ignores the result of the send, which fails once the receiver is gone.
ClientDispatch ==
    \E c \in Clients :
        /\ manager = "live"
        /\ clients[c] < Len(inputs.programs[c])
        /\ Len(queue) < MaxQueue
        /\ queue' = IF thread = "running"
                    THEN Sender_send(queue,
                             OpExecute(c, clients[c] + 1,
                                       inputs.programs[c][clients[c] + 1]))
                    ELSE queue
        /\ clients' = [clients EXCEPT ![c] = @ + 1]
        /\ last' = [op |-> "dispatch", client |-> c]
        /\ UNCHANGED <<state_vars, held, inputs, thread, manager, stop_ack,
                       executed>>

\* The loop of the back-end thread takes Op::Execute(e): state.execute(e).
BackendExecute ==
    /\ thread = "running"
    /\ queue # <<>>
    /\ recv(queue).msg.type # "Stop"
    /\ LET op == recv(queue).msg
           r == execute(State, op)
       IN  /\ SetState(r.st)
           /\ executed' = Append(executed, [client |-> op.client, seq |-> op.seq,
                                            res |-> r.res])
           /\ last' = [op |-> op.type, id |-> Subject(op), res |-> r.res]
    /\ queue' = recv(queue).rest
    /\ UNCHANGED <<held, inputs, thread, manager, stop_ack, clients>>

\* state.execute(e) panics (a callback of a client panics): the thread
\* unwinds, its state and its receiver are dropped with the messages that
\* wait, the Sender of an Op::Stop among them.
BackendPanic ==
    /\ thread = "running"
    /\ queue # <<>>
    /\ recv(queue).msg.type # "Stop"
    /\ thread' = "dead"
    /\ SetState(NewState)
    /\ queue' = <<>>
    /\ stop_ack' = IF stop_ack = "pending" THEN "closed" ELSE stop_ack
    /\ last' = [op |-> "panic"]
    /\ UNCHANGED <<held, inputs, manager, clients, executed>>

\* A drop that keeps the result of the send, and with it the Sender of a
\* message that was not sent, until it returns.
stop_sender_kept(running) == "pending"

\* The Sender of Op::Stop(tx) at the end of the block of the drop: in the
\* channel with its message, or dropped with the result of a send that
\* failed.
stop_sender(running) == IF running THEN "pending" ELSE "closed"

\* impl Drop for AdapterManager, up to rx.recv(): Op::Stop(tx) is sent; when
\* the receiver of the thread is gone the message is dropped, and tx with it.
ManagerDrop ==
    /\ manager = "live"
    /\ manager' = "waiting"
    /\ queue' = IF thread = "running" THEN Sender_send(queue, OpStop) ELSE queue
    /\ stop_ack' = stop_sender(thread = "running")
    /\ last' = [op |-> "drop manager"]
    /\ UNCHANGED <<state_vars, held, inputs, thread, clients, executed>>

\* The loop of the back-end thread takes Op::Stop(tx): tx.send(()).
BackendStop ==
    /\ thread = "running"
    /\ queue # <<>>
    /\ recv(queue).msg.type = "Stop"
    /\ queue' = recv(queue).rest
    /\ stop_ack' = "sent"
    /\ thread' = "acked"
    /\ last' = [op |-> "Stop"]
    /\ UNCHANGED <<state_vars, held, inputs, manager, clients, executed>>

\* The return that follows tx.send(()): the closure of the thread ends, its
\* AdapterManagerState and its receiver are dropped.
BackendReturn ==
    /\ thread = "acked"
    /\ thread' = "stopped"
    /\ SetState(NewState)
    /\ queue' = <<>>
    /\ last' = [op |-> "return"]
    /\ UNCHANGED <<held, inputs, manager, stop_ack, clients, executed>>

\* impl Drop for AdapterManager, rx.recv() returns: with the acknowledgement,
\* or with an error when every Sender of the acknowledgement is gone.
DropReturns ==
    /\ manager = "waiting"
    /\ stop_ack \in {"sent", "closed"}
    /\ manager' = "returned"
    /\ last' = [op |-> "drop returned"]
    /\ UNCHANGED <<state_vars, queue, held, inputs, thread, stop_ack, clients,
                   executed>>

NextManager ==
    \/ ClientDispatch
    \/ BackendExecute
    \/ BackendPanic
    \/ ManagerDrop
    \/ BackendStop
    \/ BackendReturn
    \/ DropReturns

ManagerSpec == InitManager /\ [][NextManager]_vars

\* The back-end thread runs: its loop blocks only on an empty channel, and
\* the thread that drops the manager wakes up when its recv can return.
FairManagerSpec ==
    /\ ManagerSpec
    /\ WF_vars(BackendExecute)
    /\ WF_vars(BackendStop)
    /\ WF_vars(BackendReturn)
    /\ WF_vars(DropReturns)

-----------------------------------------------------------------------------
(* Claims. *)

\* C1: every service of the index names, in its adapter field, a registered
\* adapter whose service table contains the service.
C1_ServiceOwnedByItsAdapter ==
    \A id \in DOMAIN service_by_id :
        /\ service_by_id[id].adapter \in DOMAIN adapter_by_id
        /\ id \in adapter_by_id[service_by_id[id].adapter].services

\* C2: every getter and every setter of the index has a registered parent
\* service, has the adapter of that service, and is in its child table.
C2_ChannelOwnedByItsService ==
    /\ \A id \in DOMAIN getter_by_id :
        LET getter == getter_by_id[id].getter
        IN  /\ getter.service \in DOMAIN service_by_id
            /\ getter.adapter = service_by_id[getter.service].adapter
            /\ id \in DOMAIN service_by_id[getter.service].getters
    /\ \A id \in DOMAIN setter_by_id :
        LET setter == setter_by_id[id].setter
        IN  /\ setter.service \in DOMAIN service_by_id
            /\ setter.adapter = service_by_id[setter.service].adapter
            /\ id \in DOMAIN service_by_id[setter.service].setters

\* A getter and a watcher are linked both ways.
Linked(s, g, k) ==
    /\ k \in DOMAIN s.watcher_data
    /\ g \in s.watcher_data[k].getters
    /\ g \in DOMAIN s.getter_by_id
    /\ k \in s.getter_by_id[g].watchers

\* C3: every getter id in the coverage set of a watcher of the registry is in
\* the getter index, and that getter's back-reference set contains the watcher
\* (so a removed getter has left the coverage set of every watcher).
C3_CoverageIsBackReferenced ==
    \A k \in watchers.watchers :
        \A g \in watcher_data[k].getters : Linked(State, g, k)

\* The Execute messages that add, and those that remove.
AddOps == {"AddAdapter", "AddService", "AddGetter", "AddSetter"}
RemoveOps == {"RemoveAdapter", "RemoveService", "RemoveGetter", "RemoveSetter"}

\* C4: an add_adapter, add_service, add_getter or add_setter that returns an
\* error leaves the whole state as it was before the call: the four indexes,
\* the adapters' service tables, the services' child tables and the watchers'
\* coverage sets.
C4_FailedAddChangesNothing ==
    [][(last'.op \in AddOps /\ ~last'.res.ok) => UNCHANGED state_vars]_vars

\* C5: a remove_adapter, remove_service, remove_getter or remove_setter that
\* returns an error leaves the whole state as it was before the call.
C5_FailedRemoveChangesNothing ==
    [][(last'.op \in RemoveOps /\ ~last'.res.ok) => UNCHANGED state_vars]_vars

\* C6: once the client has dropped the WatchGuard of a watcher, no TriggerWatch
\* for that watcher reaches on_event, whether it was queued before the drop
\* or after it.
C6_NoEventAfterDrop ==
    ~(last.op = "TriggerWatch" /\ last.called /\ last.key \notin held)

\* C7: a getter that enters the getter index while a watcher whose selectors
\* it matches is in the registry is linked to that watcher, both ways, when
\* the operation completes.
C7_NewGetterJoinsMatchingWatchers ==
    [][\A g \in (DOMAIN getter_by_id') \ (DOMAIN getter_by_id) :
          \A k \in watchers'.watchers :
              MatchesAny(getter_by_id'[g].getter, watcher_data'[k].selectors)
                  => (/\ g \in watcher_data'[k].getters
                      /\ k \in getter_by_id'[g].watchers)]_vars

\* C8: when register_channel_watch has returned its WatchGuard, the getters of
\* the index that match one of the selectors are linked to the new watcher
\* both ways, and nothing else is linked to it: its coverage set is the set of
\* the matching getters, and so is the set of the getters that refer to it.
C8_RegisterLinksExactlyTheMatching ==
    last.op = "RegisterChannelWatch" =>
        LET key == last.key
            matching == {g \in DOMAIN getter_by_id :
                            MatchesAny(getter_by_id[g].getter,
                                       watcher_data[key].selectors)}
        IN  /\ key \in watchers.watchers
            /\ watcher_data[key].getters = matching
            /\ {g \in DOMAIN getter_by_id : key \in getter_by_id[g].watchers}
                   = matching

\* C8, its case: a watch has just been registered on an index that has a
\* getter its selectors match and a getter they do not match.
C8_Witness ==
    /\ last.op = "RegisterChannelWatch"
    /\ \E g \in DOMAIN getter_by_id :
           MatchesAny(getter_by_id[g].getter, watcher_data[last.key].selectors)
    /\ \E g \in DOMAIN getter_by_id :
           ~MatchesAny(getter_by_id[g].getter, watcher_data[last.key].selectors)

\* C9: when unregister_channel_watch has completed, no getter of the index
\* refers to the watcher any more.
C9_UnregisterDetachesEveryGetter ==
    last.op = "UnregisterChannelWatch" =>
        \A g \in DOMAIN getter_by_id : last.key \notin getter_by_id[g].watchers

\* C10: the adapter guards of a watcher are held exactly while the watcher is
\* in the registry: a watcher of the registry is alive with its guards, and a
\* watcher that has left the registry holds no guard any more.
C10_GuardsHeldWhileRegistered ==
    /\ \A k \in watchers.watchers : k \in DOMAIN watcher_data
    /\ \A k \in DOMAIN watcher_data :
           watcher_data[k].guards # {} => k \in watchers.watchers

\* The WatchGuard of watcher k was handed out and has been dropped.
Dropped(k) == k < watchers.counter /\ k \notin held

\* C11: a watcher whose WatchGuard was dropped eventually leaves the registry,
\* and a getter that enters the index when the watcher has left the registry
\* is not linked to it: the getter does not refer to the watcher and the
\* coverage set of the watcher does not change.
C11_DroppedWatcherLeavesForGood ==
    /\ \A k \in 0..(MaxWatchers - 1) :
           [](Dropped(k) => <>(k \notin watchers.watchers))
    /\ [][\A g \in (DOMAIN getter_by_id') \ (DOMAIN getter_by_id) :
            \A k \in 0..(MaxWatchers - 1) :
                (k < watchers.counter /\ k \notin watchers.watchers) =>
                    /\ k \notin watchers'.watchers
                    /\ k \notin getter_by_id'[g].watchers
                    /\ k \in DOMAIN watcher_data' =>
                           watcher_data'[k].getters = watcher_data[k].getters]_vars

\* C11, its case: the watcher has left the registry and is still alive (a
\* getter refers to it), and add_getter has just added a getter that its
\* selectors match.
C11_Witness ==
    /\ last.op = "AddGetter"
    /\ last.res.ok
    /\ \E k \in DOMAIN watcher_data :
           /\ Dropped(k)
           /\ k \notin watchers.watchers
           /\ MatchesAny(getter_by_id[last.id].getter, watcher_data[k].selectors)

\* C12: add_service admits no service that carries channels: a service whose
\* getters or setters map is not empty is refused (InvalidInitialService), so
\* a service that add_service has just installed has no getter and no setter.
C12_ServiceWithChannelsRejected ==
    (last.op = "AddService" /\ last.res.ok) =>
        /\ DOMAIN service_by_id[last.id].getters = {}
        /\ DOMAIN service_by_id[last.id].setters = {}

\* C13: AdapterManager::remove_setter(id) removes the setter id: called on a
\* registered setter it succeeds, and when it has succeeded the setter is in
\* neither the index of setters nor a child table of a service, and the
\* registered getters are those of before.
C13_RemoveSetterRemovesTheSetter ==
    [][ManagerRemoveSetter =>
          /\ last'.id \in DOMAIN setter_by_id => last'.res.ok
          /\ last'.res.ok =>
                /\ last'.id \notin DOMAIN setter_by_id'
                /\ \A sv \in DOMAIN service_by_id' :
                       last'.id \notin DOMAIN service_by_id'[sv].setters
                /\ DOMAIN getter_by_id' = DOMAIN getter_by_id]_vars

\* The getters and the setters that the child tables of the services ids name.
ChannelsOf(s, ids) ==
    UNION {(DOMAIN s.service_by_id[sv].getters)
               \cup (DOMAIN s.service_by_id[sv].setters) :
           sv \in ids \cap (DOMAIN s.service_by_id)}

\* C14: when remove_adapter(id) has succeeded, the adapter is not registered,
\* none of the services of its service table and none of their getters and
\* setters is in an index, and no registered channel names the adapter.
C14_RemoveAdapterCascades ==
    [][(last'.op = "RemoveAdapter" /\ last'.res.ok) =>
          LET id == last'.id
              owned == adapter_by_id[id].services
              channels == ChannelsOf(State, owned)
          IN  /\ id \notin DOMAIN adapter_by_id'
              /\ owned \cap (DOMAIN service_by_id') = {}
              /\ channels \cap (DOMAIN getter_by_id') = {}
              /\ channels \cap (DOMAIN setter_by_id') = {}
              /\ \A g \in DOMAIN getter_by_id' :
                     getter_by_id'[g].getter.adapter # id
              /\ \A t \in DOMAIN setter_by_id' :
                     setter_by_id'[t].setter.adapter # id]_vars

\* C15: when remove_service has succeeded for a registered service, the
\* service is in neither the index nor the service table of its adapter, its
\* getters and setters are in no index, its adapter is still registered, and
\* the channels of the other services are still registered.
C15_RemoveServiceRemovesItAndItsChannels ==
    [][(/\ last'.op = "RemoveService"
        /\ last'.res.ok
        /\ last'.id \in DOMAIN service_by_id) =>
          LET id == last'.id
              service == service_by_id[id]
              channels == ChannelsOf(State, {id})
          IN  /\ id \notin DOMAIN service_by_id'
              /\ service.adapter \in DOMAIN adapter_by_id'
              /\ id \notin adapter_by_id'[service.adapter].services
              /\ channels \cap (DOMAIN getter_by_id') = {}
              /\ channels \cap (DOMAIN setter_by_id') = {}
              /\ \A g \in DOMAIN getter_by_id :
                     getter_by_id[g].getter.service # id
                         => g \in DOMAIN getter_by_id'
              /\ \A t \in DOMAIN setter_by_id :
                     setter_by_id[t].setter.service # id
                         => t \in DOMAIN setter_by_id']_vars

\* The message AdapterManager::remove_setter(id) dispatches.
SentByRemoveSetter(id) == RemoveGetter(id)

\* The message that the method of AdapterManager which removes what msg added
\* sends to the back-end (remove_setter sends Execute::RemoveGetter).
Removal(msg) ==
    CASE msg.type = "AddAdapter" -> RemoveAdapter(msg.id)
      [] msg.type = "AddService" -> RemoveService(msg.adapter, msg.service.id)
      [] msg.type = "AddGetter" -> RemoveGetter(msg.setter.id)
      [] msg.type = "AddSetter" -> SentByRemoveSetter(msg.setter.id)

\* C16: for an adapter, a service, a getter or a setter, an add that succeeds
\* followed by the remove of what was added leaves the back-end as it was
\* before the add: indexes, service tables, child tables and the coverage
\* sets of the watchers.
C16_AddThenRemoveRestores ==
    \A msg \in inputs.add_adapter \cup inputs.add_service
                   \cup inputs.add_getter \cup inputs.add_setter :
        LET added == execute(State, msg)
        IN  added.res.ok => execute(added.st, Removal(msg)).st = State

\* A remove that succeeds, done again at once, fails with the error expected.
FailsTheSecondTime(msg, expected) ==
    LET first == execute(State, msg)
        second == execute(first.st, msg)
    IN  first.res.ok => (~second.res.ok /\ second.res.err = expected)

\* C17: a second remove_adapter, remove_service, remove_getter or
\* remove_setter right after a successful one fails with NoSuchAdapter,
\* NoSuchService, NoSuchGetter or NoSuchSetter of the id, and the id of a
\* removed adapter can be added again.
C17_SecondRemoveFails ==
    /\ \A msg \in inputs.remove_adapter :
           /\ FailsTheSecondTime(msg, NoSuchAdapter(msg.id))
           /\ LET first == execute(State, msg)
              IN  first.res.ok =>
                      execute(first.st, AddAdapter(msg.id, <<>>)).res.ok
    /\ \A msg \in inputs.remove_service :
           FailsTheSecondTime(msg, NoSuchService(msg.id))
    /\ \A msg \in inputs.remove_getter :
           FailsTheSecondTime(msg, NoSuchGetter(msg.id))
    /\ \A id \in inputs.remove_setter :
           FailsTheSecondTime(SentByRemoveSetter(id), NoSuchSetter(id))

\* C18: add_adapter with the id of a registered adapter fails with
\* DuplicateAdapter(id) and changes nothing; add_adapter with an id that is
\* not registered (and no service) succeeds and registers the adapter beside
\* the others; after remove_adapter of one adapter, the id of another
\* registered adapter is still refused.
C18_DuplicateAdapterRefused ==
    \A msg \in inputs.add_adapter :
        LET r == execute(State, msg)
        IN  /\ msg.id \in DOMAIN adapter_by_id =>
                /\ ~r.res.ok
                /\ r.res.err = DuplicateAdapter(msg.id)
                /\ r.st = State
                /\ \A rm \in inputs.remove_adapter :
                       rm.id # msg.id =>
                         LET removed == execute(State, rm).st
                             again == execute(removed, msg)
                         IN  /\ ~again.res.ok
                             /\ again.res.err = DuplicateAdapter(msg.id)
                             /\ again.st = removed
            /\ (msg.id \notin DOMAIN adapter_by_id /\ msg.services = <<>>) =>
                /\ r.res.ok
                /\ r.st = [State EXCEPT
                              !.adapter_by_id = Put(@, msg.id, AdapterData_new)]

\* C18, its case: with two adapters registered, add_adapter has just been
\* refused for the id of one of them.
C18_Witness ==
    /\ last.op = "AddAdapter"
    /\ ~last.res.ok
    /\ last.res.err = DuplicateAdapter(last.id)
    /\ Cardinality(DOMAIN adapter_by_id) = 2
    /\ \E a \in DOMAIN adapter_by_id : adapter_by_id[a].services # {}

\* The add_service calls of the inputs whose service carries no channel.
ChannellessAddService ==
    {msg \in inputs.add_service :
        DOMAIN msg.service.getters = {} /\ DOMAIN msg.service.setters = {}}

\* C19: add_service of a service without channels fails with NoSuchAdapter
\* when the adapter it is called with is not registered, fails with
\* DuplicateService when the adapter is registered and the id of the service
\* is in the index of services, and otherwise succeeds, the service then
\* being in the index and in the table of the adapter.
C19_AddServiceOutcome ==
    \A msg \in ChannellessAddService :
        LET r == execute(State, msg)
            id == msg.service.id
        IN  /\ msg.adapter \notin DOMAIN adapter_by_id =>
                (~r.res.ok /\ r.res.err = NoSuchAdapter(msg.adapter))
            /\ (msg.adapter \in DOMAIN adapter_by_id
                    /\ id \in DOMAIN service_by_id) =>
                (~r.res.ok /\ r.res.err = DuplicateService(id))
            /\ (msg.adapter \in DOMAIN adapter_by_id
                    /\ id \notin DOMAIN service_by_id) =>
                /\ r.res.ok
                /\ id \in DOMAIN r.st.service_by_id
                /\ r.st.service_by_id[id] = msg.service
                /\ id \in r.st.adapter_by_id[msg.adapter].services

\* The outcome add_getter or add_setter must have for channel, index being
\* the index of the channels of its kind and children the name of the child
\* table: NoSuchService without the parent service, ConflictingAdapter or
\* Duplicate when the adapters differ or the id is registered, and otherwise
\* success with the channel in the index and in the child table of its
\* service.
ChannelOutcome(r, channel, index, index_after, children, duplicate) ==
    LET registered == channel.service \in DOMAIN service_by_id
        conflicting == service_by_id[channel.service].adapter # channel.adapter
        present == channel.id \in DOMAIN index
    IN  /\ ~registered =>
            (~r.res.ok /\ r.res.err = NoSuchService(channel.service))
        /\ (registered /\ conflicting /\ ~present) =>
            (~r.res.ok /\ r.res.err.kind = "ConflictingAdapter")
        /\ (registered /\ ~conflicting /\ present) =>
            (~r.res.ok /\ r.res.err = duplicate)
        /\ (registered /\ conflicting /\ present) =>
            (~r.res.ok /\ (\/ r.res.err.kind = "ConflictingAdapter"
                           \/ r.res.err = duplicate))
        /\ (registered /\ ~conflicting /\ ~present) =>
            /\ r.res.ok
            /\ channel.id \in DOMAIN index_after
            /\ channel.id \in DOMAIN r.st.service_by_id[channel.service][children]
            /\ r.st.service_by_id[channel.service][children][channel.id] = channel

Entries(res) == {res[i].id : i \in DOMAIN res}

\* The registered getters, or setters, that match at least one selector.
Matching(map, selectors) ==
    {id \in DOMAIN map : MatchesAny(ChannelOf(map[id]), selectors)}

\* C21: the result map of fetch_values has an entry for every registered
\* getter that matches at least one selector, one entry each, and no entry
\* for any other getter, in every state the topology operations lead to.
C21_FetchAnswersEveryMatchingGetter ==
    last.op = "FetchChannelValues" =>
        /\ Entries(last.res) = Matching(getter_by_id, last.selectors)
        /\ \A i, j \in DOMAIN last.res : last.res[i].id = last.res[j].id => i = j

\* Error::TypeError(TypeError { got, expected }).
TypeError(got, expected) ==
    [kind |-> "TypeError", got |-> got, expected |-> expected]

\* An adapter's answer that carries a value of another type than `kind`.
IllTyped(result, kind) ==
    result.ok /\ result.value # NoValue /\ result.value.type # kind

\* C22: in the result of fetch_values, the entry of a getter for which the
\* adapter returned a value of another type than the getter's declared kind
\* is Err(TypeError{got, expected}), and every other entry is what the
\* adapter returned.
C22_FetchReportsTypeError ==
    last.op = "FetchChannelValues" =>
        \A i \in DOMAIN last.res :
            LET id == last.res[i].id
                kind == getter_by_id[id].getter.kind
                answered == last.answer[id]
            IN  last.res[i].result =
                    IF IllTyped(answered, kind)
                    THEN Err(TypeError(answered.value.type, kind))
                    ELSE map_err(answered)

\* The (setter, value) pairs the adapters were given by a send.
Delivered(payload) ==
    UNION {{[id |-> payload[i].values[j].id, value |-> payload[i].values[j].value] :
               j \in DOMAIN payload[i].values} : i \in DOMAIN payload}

\* The results a ResultMap holds for an id.
ResultsOf(res, id) == {res[i].result : i \in {j \in DOMAIN res : res[j].id = id}}

\* C23: send_values fans each value out to every setter matching its selector
\* list; a setter whose declared kind differs from the type of the value gets
\* Err(TypeError{got, expected}) and its adapter is not given the value; a
\* type-compatible matching setter has the value passed to its adapter and
\* gets the adapter's result. Stated for the setters of registered adapters.
C23_SendChecksTypes ==
    last.op = "SendChannelValues" =>
        \A k \in DOMAIN last.keyvalues :
        \A id \in {t \in Matching(setter_by_id, last.keyvalues[k].selectors) :
                      setter_by_id[t].setter.adapter \in DOMAIN adapter_by_id} :
            LET value == last.keyvalues[k].value
                kind == setter_by_id[id].setter.kind
                pair == [id |-> id, value |-> value]
            IN  IF value.type # kind
                THEN /\ Err(TypeError(value.type, kind)) \in ResultsOf(last.res, id)
                     /\ pair \notin Delivered(last.payload)
                ELSE /\ pair \in Delivered(last.payload)
                     /\ map_err(last.answer[id]) \in ResultsOf(last.res, id)

\* Some order of the elements of S.
AnyOrder(S) == CHOOSE o \in Orders(S) : TRUE

\* The channels of a map that belong to a registered adapter.
OfRegisteredAdapter(map) ==
    {id \in DOMAIN map : ChannelOf(map[id]).adapter \in DOMAIN adapter_by_id}

\* The fetch of the step just taken, had the adapter answered Ok(None) for c.
FetchWithout(c) ==
    fetch_channel_values(State, last.selectors, AnyOrder(DOMAIN getter_by_id),
                         AnyOrder(AdapterIds),
                         [last.answer EXCEPT ![c] = OkValue(NoValue)])

\* The send of the step just taken, had the adapter answered Ok(()) for c.
SendWithout(c) ==
    send_channel_values(State, last.keyvalues, AnyOrder(DOMAIN setter_by_id),
                        AnyOrder(AdapterIds), [last.answer EXCEPT ![c] = Ok])

\* The setters a send matches.
SendMatching ==
    UNION {Matching(setter_by_id, last.keyvalues[k].selectors) :
              k \in DOMAIN last.keyvalues}

\* C24: in fetch_values and send_values, an error an adapter returns for one
\* channel is the entry of that channel, wrapped in AdapterError, and changes
\* nothing for any other matched channel: each has the entries it would have
\* had without the error, which for a channel of a registered adapter is what
\* its adapter returned for it, and a send passes the adapters the same
\* values as without the error.
C24_AdapterErrorStaysWithItsChannel ==
    /\ last.op = "FetchChannelValues" =>
          \A c \in {id \in Entries(last.res) : ~last.answer[id].ok} :
              /\ ResultsOf(last.res, c) = {Err(AdapterError(last.answer[c].err))}
              /\ \A id \in Matching(getter_by_id, last.selectors) \ {c} :
                    /\ ResultsOf(last.res, id) = ResultsOf(FetchWithout(c), id)
                    /\ id \in OfRegisteredAdapter(getter_by_id) =>
                          ResultsOf(last.res, id) = {map_err(last.answer[id])}
    /\ last.op = "SendChannelValues" =>
          \A c \in {id \in Entries(last.res) : ~last.answer[id].ok} :
              /\ ResultsOf(last.res, c) = {Err(AdapterError(last.answer[c].err))}
              /\ Delivered(last.payload) = Delivered(SendWithout(c).payload)
              /\ \A id \in SendMatching \ {c} :
                    /\ ResultsOf(last.res, id) = ResultsOf(SendWithout(c).res, id)
                    /\ id \in OfRegisteredAdapter(setter_by_id) =>
                          /\ ResultsOf(last.res, id) = {map_err(last.answer[id])}
                          /\ \E p \in Delivered(last.payload) : p.id = id

\* C24 witness: a send in which adapter a1 returned an error for one of its
\* two setters and Ok for the other, both matched.
C24_Witness ==
    /\ last.op = "SendChannelValues"
    /\ {"t1", "t2"} \subseteq Entries(last.res)
    /\ setter_by_id["t1"].setter.adapter = setter_by_id["t2"].setter.adapter
    /\ ~last.answer["t1"].ok
    /\ last.answer["t2"].ok
    /\ Ok \in ResultsOf(last.res, "t2")

\* The tag messages of the inputs.
TagMessages ==
    inputs.add_service_tag \cup inputs.remove_service_tag
        \cup inputs.add_getter_tag \cup inputs.remove_getter_tag
        \cup inputs.add_setter_tag \cup inputs.remove_setter_tag

\* The stored entities a query or a tag message matches: those of its table
\* that at least one of its selectors matches.
Matched(s, msg) ==
    IF msg.type \in {"GetServices", "AddServiceTags", "RemoveServiceTags"}
    THEN {id \in DOMAIN s.service_by_id :
             \E i \in DOMAIN msg.selectors :
                 ServiceMatches(s.service_by_id[id], msg.selectors[i])}
    ELSE Matching(TableOf(s, msg), msg.selectors)

\* C25: each add_*_tags and remove_*_tags call returns the number of stored
\* entities that at least one selector matches when it is called, each counted
\* once, whatever the number of tags and whether or not a tag set changes; 0
\* when nothing matches.
C25_TagCallsCountMatchedEntities ==
    \A msg \in TagMessages : \A order \in Orders(DOMAIN TableOf(State, msg)) :
        execute_infallible(State, msg, order).res = Cardinality(Matched(State, msg))

\* C25 witness: add_getter_tags has answered 2 with two getters stored that
\* both carry the tag already.
C25_Witness ==
    /\ last.op = "AddGetterTags"
    /\ last.count = 2
    /\ \E msg \in inputs.add_getter_tag :
          /\ Cardinality(Matched(State, msg)) = 2
          /\ execute_infallible(State, msg, AnyOrder(DOMAIN getter_by_id)).st = State

\* The tags of an entry of a table: of a service, or of the channel of a
\* GetterData or SetterData.
TagsOf(entry) ==
    IF "tags" \in DOMAIN entry THEN entry.tags ELSE ChannelOf(entry).tags

\* An entry of a table with its tags left out.
Untagged(entry) ==
    IF "tags" \in DOMAIN entry
    THEN [entry EXCEPT !.tags = {}]
    ELSE WithChannel(entry, [ChannelOf(entry) EXCEPT !.tags = {}])

\* What a tag message leaves of a tag set.
Retagged(msg, tag_set) ==
    IF msg.type \in {"AddServiceTags", "AddGetterTags", "AddSetterTags"}
    THEN tag_set \cup Elements(msg.tags)
    ELSE tag_set \ Elements(msg.tags)

\* The tables of a state other than the one of a tag message.
OtherTables(s, msg) ==
    CASE msg.type \in {"AddServiceTags", "RemoveServiceTags"} ->
             [s EXCEPT !.service_by_id = EmptyMap]
      [] msg.type \in {"AddGetterTags", "RemoveGetterTags"} ->
             [s EXCEPT !.getter_by_id = EmptyMap]
      [] msg.type \in {"AddSetterTags", "RemoveSetterTags"} ->
             [s EXCEPT !.setter_by_id = EmptyMap]

\* C26: add_tags(selectors, T) makes the tag set of every matched entity its
\* old tags united with T and remove_tags(selectors, T) its old tags minus T;
\* the tags of the entities that are not matched, and everything else, stay
\* as they were; the same call applied a second time changes nothing more.
C26_TagCallsSetTheTags ==
    \A msg \in TagMessages : \A order \in Orders(DOMAIN TableOf(State, msg)) :
        LET once == execute_infallible(State, msg, order).st
            twice == execute_infallible(once, msg, order).st
            old == TableOf(State, msg)
            new == TableOf(once, msg)
        IN  /\ DOMAIN new = DOMAIN old
            /\ \A id \in DOMAIN old :
                  /\ Untagged(new[id]) = Untagged(old[id])
                  /\ TagsOf(new[id]) =
                        IF id \in Matched(State, msg)
                        THEN Retagged(msg, TagsOf(old[id]))
                        ELSE TagsOf(old[id])
            /\ OtherTables(once, msg) = OtherTables(State, msg)
            /\ twice = once

\* C26 witness: remove_getter_tags has taken one of the two tags of a getter.
C26_Witness ==
    /\ last.op = "RemoveGetterTags"
    /\ last.count >= 1
    /\ \E id \in DOMAIN getter_by_id : getter_by_id[id].getter.tags = {"y"}

\* The queries of the inputs.
Queries ==
    inputs.get_services \cup inputs.get_getter_channels
        \cup inputs.get_setter_channels

\* The entity a table stores under an id, as a query returns it.
Stored(s, msg, id) ==
    IF msg.type = "GetServices"
    THEN s.service_by_id[id]
    ELSE ChannelOf(TableOf(s, msg)[id])

\* A selector without any field.
IsEmptySelector(selector) ==
    /\ selector.id = None
    /\ selector.tags = {}
    /\ "parent" \in DOMAIN selector => selector.parent = None

\* C27: get_services, get_getter_channels and get_setter_channels return the
\* stored entities that at least one selector of the query matches, each once
\* and as it is stored, and no other; a query with an empty selector returns
\* every stored entity and a query without selectors returns nothing.
C27_QueriesReturnTheMatchingEntities ==
    \A msg \in Queries : \A order \in Orders(DOMAIN TableOf(State, msg)) :
        LET r == execute_infallible(State, msg, order)
        IN  /\ r.st = State
            /\ {r.res[i].id : i \in DOMAIN r.res} = Matched(State, msg)
            /\ Len(r.res) = Cardinality(Matched(State, msg))
            /\ \A i \in DOMAIN r.res : r.res[i] = Stored(State, msg, r.res[i].id)
            /\ (\E i \in DOMAIN msg.selectors : IsEmptySelector(msg.selectors[i]))
                  => Len(r.res) = Cardinality(DOMAIN TableOf(State, msg))
            /\ msg.selectors = <<>> => r.res = <<>>

\* C27 witness: get_getter_channels has returned one of two stored getters.
C27_Witness ==
    /\ last.op = "GetGetters"
    /\ Len(last.found) = 1
    /\ Cardinality(DOMAIN getter_by_id) = 2

\* The messages a step has put on the channel of the back-end thread.
Sent == SubSeq(queue', Len(queue) + 1, Len(queue'))

C29_WatchAssertionsHold ==
    /\ last.op = "RegisterChannelWatch" => last.orphans = {}
    /\ last.op = "UnregisterChannelWatch" => ~last.absent /\ last.unlinked = {}

\* C30: for one watcher, the sink receives the values of a getter in the
\* order in which the adapter's callback emitted them: when the sink is called
\* with a value, no value that the same callback emitted earlier still waits
\* in the channel, whatever other messages wait with it.
C30_EventsDeliveredInOrder ==
    (last.op = "TriggerWatch" /\ last.called /\ last.event.event = "Value") =>
        \A v \in InFlight(queue, last.key, last.event.from) : v > last.event.value

\* The sink has received a value while a later value of the same callback
\* waits in the channel.
C30_Witness ==
    /\ last.op = "TriggerWatch"
    /\ last.called
    /\ last.event.event = "Value"
    /\ InFlight(queue, last.key, last.event.from) # {}

\* C31: releasing a WatchGuard stores true into the watcher's is_dropped flag:
\* once the release has returned the flag of the watcher is true, and a
\* callback of the adapter that runs for that watcher afterwards returns
\* without sending an event.
C31_DropSetsIsDropped ==
    /\ \A key \in DOMAIN watcher_data :
           Dropped(key) => watcher_data[key].is_dropped
    /\ (last.op = "callback" /\ Dropped(last.key)) => ~last.sent

\* C32: when add_getter adds a getter that matches a watcher of the registry
\* whose clause has a value filter (Exactly or Always), a downstream watch is
\* registered with the adapter and its guard is among the guards of the
\* watcher when add_getter returns.
C32_NewGetterIsWatchedDownstream ==
    [][(last'.op = "AddGetter" /\ last'.res.ok) =>
          \A k \in watchers'.watchers :
              (/\ MatchesAny(getter_by_id'[last'.id].getter, watcher_data'[k].selectors)
               /\ watcher_data'[k].range \in {"Exactly", "Always"})
                  => last'.id \in watcher_data'[k].guards]_vars

\* C33: when a getter that a watcher covers leaves the getter index (by
\* remove_getter or by the cascade of remove_service or remove_adapter), the
\* guards the watcher holds for that getter are released and its guards for
\* the other getters are kept.
C33_RemovedGetterReleasesItsGuards ==
    [][LET removed == (DOMAIN getter_by_id) \ (DOMAIN getter_by_id')
       IN  \A k \in watchers'.watchers :
               removed # {} =>
                   /\ watcher_data'[k].guards \cap removed = {}
                   /\ watcher_data'[k].guards \ removed =
                          watcher_data[k].guards \ removed]_vars

\* C34: every service id of an adapter's service table is in the global
\* service table, no service id is in the tables of two adapters, and so
\* remove_adapter(a) removes no service that the table of another adapter
\* lists.
C34_ServiceTablesAgree ==
    /\ \A a \in DOMAIN adapter_by_id :
           adapter_by_id[a].services \subseteq DOMAIN service_by_id
    /\ \A a, b \in DOMAIN adapter_by_id :
           a # b => adapter_by_id[a].services \cap adapter_by_id[b].services = {}
    /\ \A a, b \in DOMAIN adapter_by_id :
           a # b => adapter_by_id[b].services \subseteq
                        DOMAIN remove_adapter(State, a).st.service_by_id

\* C35: once the back-end thread has executed UnregisterChannelWatch(key),
\* the key never returns to the registry and the sink of that watcher is not
\* called again, although TriggerWatch messages for the key are still taken
\* from the channel; a TriggerWatch for a key that is not in the registry
\* changes nothing.
C35_NoEventAfterUnregister ==
    [][/\ \A key \in 0..(MaxWatchers - 1) :
              (key < watchers.counter /\ key \notin watchers.watchers)
                  => key \notin watchers'.watchers
       /\ (last'.op = "TriggerWatch" /\ last'.key \notin watchers.watchers)
              => (~last'.called /\ UNCHANGED <<state_vars, held>>)]_vars

\* C35, its case: the back-end thread has just taken a TriggerWatch for a
\* watcher that it had unregistered before.
C35_Witness ==
    /\ last.op = "TriggerWatch"
    /\ last.key < watchers.counter
    /\ last.key \notin watchers.watchers
    /\ ~last.called

\* C36: for every watcher of the registry and every getter of the index, the
\* watcher is linked to the getter exactly when the getter matches one of
\* the watcher's selectors; a change of the getter's tags that makes it
\* start or stop matching updates the link.
C36_LinkedIffMatching ==
    \A k \in watchers.watchers : \A g \in DOMAIN getter_by_id :
        (k \in getter_by_id[g].watchers) <=>
            MatchesAny(getter_by_id[g].getter, watcher_data[k].selectors)

\* C37: the two stored copies of a channel agree: the copy in the child table
\* of its service has the tags of the copy in the global channel table,
\* whatever tag methods were called.
C37_ChannelCopiesAgree ==
    \A s \in DOMAIN service_by_id :
        /\ \A g \in (DOMAIN service_by_id[s].getters) \cap (DOMAIN getter_by_id) :
               service_by_id[s].getters[g].tags = getter_by_id[g].getter.tags
        /\ \A t \in (DOMAIN service_by_id[s].setters) \cap (DOMAIN setter_by_id) :
               service_by_id[s].setters[t].tags = setter_by_id[t].setter.tags

\* The state the back-end thread reaches by executing the messages of a log
\* one after the other, each on the state the one before it left.
RECURSIVE Replay(_)
Replay(log) ==
    IF log = <<>> THEN NewState
    ELSE LET e == log[Len(log)]
         IN  execute(Replay(SubSeq(log, 1, Len(log) - 1)),
                     Programs[e.client][e.seq]).st

\* C38: the operations that several clients dispatch are executed one at a
\* time: the state of the back-end is the one that the executed operations,
\* taken one after the other in the order of their execution, lead to, each
\* operation has the result it has on the state the operations before it
\* left, and the operations of one client are executed in the order in which
\* the client dispatched them.
C38_OperationsAreSerialized ==
    thread = "running" =>
        /\ State = Replay(executed)
        /\ \A i \in DOMAIN executed :
               executed[i].res =
                   execute(Replay(SubSeq(executed, 1, i - 1)),
                           Programs[executed[i].client][executed[i].seq]).res
        /\ \A i, j \in DOMAIN executed :
               (i < j /\ executed[i].client = executed[j].client)
                   => executed[i].seq < executed[j].seq
        /\ \A i \in DOMAIN executed :
               \A n \in 1..(executed[i].seq - 1) :
                   \E j \in 1..(i - 1) : /\ executed[j].client = executed[i].client
                                         /\ executed[j].seq = n

\* C38, its case: the back-end thread has executed an operation of one client
\* between two operations of the other, while a further operation waits.
C38_Witness ==
    /\ thread = "running"
    /\ queue # <<>>
    /\ \E i, j, k \in DOMAIN executed :
           /\ i < j /\ j < k
           /\ executed[i].client = executed[k].client
           /\ executed[j].client # executed[i].client

\* C39: when the drop of the AdapterManager has returned, the back-end thread
\* has stopped executing: it is stopped or dead, and no step of that thread
\* (an operation, the release of its state) happens afterwards.
C39_ThreadStoppedWhenDropReturns ==
    [][manager = "returned" =>
          /\ thread \in {"stopped", "dead"}
          /\ UNCHANGED <<state_vars, queue, executed, thread>>]_vars

\* C40: the drop of an AdapterManager terminates: it returns when the
\* back-end thread runs, which executes the operations sent before Op::Stop
\* and then acknowledges, and when the thread is dead, the acknowledgement
\* channel being closed then.
C40_DropTerminates ==
    /\ (manager = "waiting") ~> (manager = "returned")
    /\ [](stop_ack = "sent" => Len(executed) = clients["c1"] + clients["c2"])

\* C40, its case: the drop has returned from a manager whose thread had died
\* after it had executed operations.
C40_Witness ==
    /\ last.op = "drop returned"
    /\ thread = "dead"
    /\ executed # <<>>

====
